---- MODULE Spec2Model ----
(***************************************************************************)
(* Model of the STFT processing component of SOF (stft_process,           *)
(* phase_vocoder and the FFT plan helpers).  Pointers are sample indices;  *)
(* the ring buffer of struct stft_process_buffer lives at addresses        *)
(* addr .. end_addr-1 of the variable mem.                                 *)
(***************************************************************************)
EXTENDS Integers, Sequences, FiniteSets, TLC

(* ------------------------------------------------------------------ *)
(* Bounds of the model                                                 *)
(* ------------------------------------------------------------------ *)
MaxFftSize == 3
MaxFrames == 2
MaxSetups == 2
MaxCalls == 3
MaxLen == 4
MaxXformLen == 3
ChannelCounts == {1, 2}
SrcFrames == 3

(* ------------------------------------------------------------------ *)
(* Helpers of sof/common.h and sof/audio/format.h                      *)
(* ------------------------------------------------------------------ *)
MIN(a, b) == IF a < b THEN a ELSE b

MAX(a, b) == IF a < b THEN b ELSE a

sat_int16(x) == IF x > 32767 THEN 32767 ELSE IF x < -32768 THEN -32768 ELSE x

\* Q_SHIFT_RND(s, 30, 15): ((s >> 14) + 1) >> 1, arithmetic shifts
Q_SHIFT_RND_30_15(s) == ((s \div 16384) + 1) \div 2

\* Q_SHIFT_LEFT(in, 15, 30): in << 15
Q_SHIFT_LEFT_15_30(x) == x * 32768

\* Sequencing: the value v of one step, then the step F applied to it
Then(v, F(_)) == CHOOSE r \in {F(t) : t \in {x \in {v} : x = x}} : TRUE

Load(m, a) == IF a \in DOMAIN m THEN m[a] ELSE 0

Store(m, a, v) == IF a \in DOMAIN m THEN [m EXCEPT ![a] = v] ELSE m

VARIABLES
    buf,          \* struct stft_process_buffer of the input ring
    mem,          \* the samples at addresses addr .. end_addr-1
    acc,          \* ring addresses read or written by the last step
    emph,         \* struct stft_process_pre_emph
    fft,          \* struct stft_process_fft (sizes and indices)
    fft_buf,      \* fft->fft_buf[], real and imaginary parts
    prev_data,    \* state->prev_data[], prev_data_size samples
    cd,           \* struct stft_comp_data (frame_bytes, channels, ...)
    src,          \* the sof_source: circular buffer of x_size samples
    state,        \* scalar fields of struct stft_process_state
    loc,          \* locals of a running stft_process_source_s16 call
    pc,           \* position of the caller: "idle" or inside a call
    lastOp,       \* the operation that acted last
    heap,         \* the allocator: blocks, the events of the last call
    pointers,     \* state->buffers, fft->fft_buf, fft_out, fft_plan, ifft_plan
    config,       \* *cd->config, struct sof_stft_process_config
    ret,          \* the status the last call returned
    nsetup,       \* calls of setup made so far
    pvcd,         \* struct phase_vocoder_comp_data
    sink,         \* the sof_sink: circular buffer of y_size samples
    produced,     \* what the last processing call wrote and committed
    hist,         \* history of the phase vocoder since its last prepare
    plancall,     \* a call of a plan constructor: arguments and result
    xform         \* a transform in progress: plan, buffers, position

ringVars == <<buf, mem, acc, emph, fft, fft_buf, prev_data, cd, src, state, loc, pc, lastOp>>

lifeVars == <<heap, pointers, config, ret, nsetup>>

pvVars == <<pvcd, sink, produced, hist>>

fftVars == <<plancall, xform>>

vars == <<ringVars, lifeVars, pvVars, fftVars>>

(* ------------------------------------------------------------------ *)
(* stft_process.h: ring buffer helpers                                 *)
(* ------------------------------------------------------------------ *)
\* Mutant: the count of samples before the wrap is one too large
Mut_samples_without_wrap_plus_one(buffer, ptr) == buffer.end_addr - ptr + 1

stft_process_buffer_samples_without_wrap(buffer, ptr) == buffer.end_addr - ptr

stft_process_buffer_wrap(buffer, ptr) ==
    IF ptr >= buffer.end_addr THEN ptr - buffer.s_length ELSE ptr

(* stft_process_setup.c *)
stft_process_init_buffer(base, size) ==
    [addr |-> base, end_addr |-> base + size, r_ptr |-> base, w_ptr |-> base,
     s_free |-> size, s_avail |-> 0, s_length |-> size]

RECURSIVE round_up_loop(_, _)
round_up_loop(p, n) == IF p < n THEN round_up_loop(p * 2, n) ELSE p

round_up_to_pow2(n) == round_up_loop(1, n)


(* ------------------------------------------------------------------ *)
(* stft_process-generic.c: the readers of the ring                     *)
(* ------------------------------------------------------------------ *)
\* The tiling loop of stft_process_fill_prev_samples;
\* st = [r, copied, prev, acc], one call per loop iteration.
RECURSIVE fill_prev_loop(_, _, _, _)
fill_prev_loop(b, m, prev_data_length, st) ==
    IF st.copied < prev_data_length
    THEN LET nmax == prev_data_length - st.copied
             n == MIN(stft_process_buffer_samples_without_wrap(b, st.r), nmax)
             p == [j \in DOMAIN st.prev |->
                     IF j >= st.copied /\ j < st.copied + n
                     THEN Load(m, st.r + (j - st.copied)) ELSE st.prev[j]]
         IN fill_prev_loop(b, m, prev_data_length,
                [r |-> stft_process_buffer_wrap(b, st.r + n),
                 copied |-> st.copied + n,
                 prev |-> p,
                 acc |-> st.acc \cup (st.r .. (st.r + n - 1))])
    ELSE st

\* Mutant: the reader forgets buf->s_free += copied
Mut_fill_prev_samples_no_free(b, m, prev, prev_data_length) ==
    LET e == fill_prev_loop(b, m, prev_data_length,
                 [r |-> b.r_ptr, copied |-> 0, prev |-> prev, acc |-> {}])
    IN [buf |-> [b EXCEPT !.s_avail = b.s_avail - e.copied, !.r_ptr = e.r],
        prev_data |-> e.prev,
        acc |-> e.acc]

\* Result: [buf, prev_data, acc]
stft_process_fill_prev_samples(b, m, prev, prev_data_length) ==
    LET e == fill_prev_loop(b, m, prev_data_length,
                 [r |-> b.r_ptr, copied |-> 0, prev |-> prev, acc |-> {}])
    IN [buf |-> [b EXCEPT !.s_avail = b.s_avail - e.copied,
                          !.s_free = b.s_free + e.copied,
                          !.r_ptr = e.r],
        prev_data |-> e.prev,
        acc |-> e.acc]

\* The hop copy loop of stft_process_fill_fft_buffer;
\* st = [r, copied, idx, fb, acc], one call per loop iteration.
RECURSIVE fill_hop_loop(_, _, _, _)
fill_hop_loop(b, m, hop, st) ==
    IF st.copied < hop
    THEN LET nmax == hop - st.copied
             n == MIN(stft_process_buffer_samples_without_wrap(b, st.r), nmax)
             fb == [i \in DOMAIN st.fb |->
                     IF i >= st.idx /\ i < st.idx + n
                     THEN [st.fb[i] EXCEPT !.real = Load(m, st.r + (i - st.idx))]
                     ELSE st.fb[i]]
         IN fill_hop_loop(b, m, hop,
                [r |-> stft_process_buffer_wrap(b, st.r + n),
                 copied |-> st.copied + n,
                 idx |-> st.idx + n,
                 fb |-> fb,
                 acc |-> st.acc \cup (st.r .. (st.r + n - 1))])
    ELSE st

\* Mutant: idx += state->prev_data_size is forgotten, the new samples
\* overwrite the carried ones
Mut_fill_fft_buffer_no_idx_advance(b, m, f, fb, prev, prev_data_size) ==
    LET idx0 == f.fft_fill_start_idx
        fb1 == [i \in DOMAIN fb |->
                  IF i >= idx0 /\ i < idx0 + prev_data_size
                  THEN [fb[i] EXCEPT !.real = prev[i - idx0]] ELSE fb[i]]
        e == fill_hop_loop(b, m, f.fft_hop_size,
                 [r |-> b.r_ptr, copied |-> 0, idx |-> idx0,
                  fb |-> fb1, acc |-> {}])
        idx2 == f.fft_fill_start_idx + f.fft_hop_size
    IN [buf |-> [b EXCEPT !.s_avail = b.s_avail - e.copied,
                          !.s_free = b.s_free + e.copied,
                          !.r_ptr = e.r],
        fft_buf |-> e.fb,
        prev_data |-> [j \in DOMAIN prev |-> e.fb[idx2 + j].real],
        acc |-> e.acc]

\* Result: [buf, fft_buf, prev_data, acc]
stft_process_fill_fft_buffer(b, m, f, fb, prev, prev_data_size) ==
    LET idx0 == f.fft_fill_start_idx
        fb1 == [i \in DOMAIN fb |->
                  IF i >= idx0 /\ i < idx0 + prev_data_size
                  THEN [fb[i] EXCEPT !.real = prev[i - idx0]] ELSE fb[i]]
        e == fill_hop_loop(b, m, f.fft_hop_size,
                 [r |-> b.r_ptr, copied |-> 0, idx |-> idx0 + prev_data_size,
                  fb |-> fb1, acc |-> {}])
        idx2 == f.fft_fill_start_idx + f.fft_hop_size
    IN [buf |-> [b EXCEPT !.s_avail = b.s_avail - e.copied,
                          !.s_free = b.s_free + e.copied,
                          !.r_ptr = e.r],
        fft_buf |-> e.fb,
        prev_data |-> [j \in DOMAIN prev |-> e.fb[idx2 + j].real],
        acc |-> e.acc]

(* ------------------------------------------------------------------ *)
(* stft_process-generic.c: stft_process_source_s16, the writer         *)
(* ------------------------------------------------------------------ *)
\* The sample held by the source's circular buffer at offset o
SrcAt(o) == o + 1

\* source_get_data_s16(): fails when more bytes are asked than are available
source_get_data_s16(s, c, frames) == IF frames > s.avail THEN -61 ELSE 0

\* source_release_data(): the read position moves on by the bytes consumed
source_release_data(s, c, bytes) ==
    LET n == bytes \div c.frame_bytes
    IN [s EXCEPT !.rd = (s.rd + n * c.channels) % s.x_size, !.avail = s.avail - n]

\* for (i = 0; i < n; i++) of the copy loop; st = [i, x, w, m, delay, acc]
RECURSIVE source_copy(_, _, _, _)
source_copy(n, c, e, st) ==
    IF st.i < n
    THEN LET in == SrcAt(st.x + c.source_channel)
             s == st.delay * e.coef + Q_SHIFT_LEFT_15_30(in)
             out == IF e.enable # 0 THEN sat_int16(Q_SHIFT_RND_30_15(s)) ELSE in
         IN source_copy(n, c, e,
                [i |-> st.i + 1,
                 x |-> st.x + c.channels,
                 w |-> st.w + 1,
                 m |-> Store(st.m, st.w, out),
                 delay |-> IF e.enable # 0 THEN in ELSE st.delay,
                 acc |-> st.acc \cup {st.w}])
    ELSE st

ZeroComplex == [real |-> 0, imag |-> 0]

NoLoc == [x |-> 0, w |-> 0, frames |-> 0, frames_left |-> 0, bytes |-> 0, copied |-> 0]

\* Entry of stft_process_source_s16 up to the head of while (frames_left)
stft_process_source_s16_call(frames) ==
    /\ pc = "idle"
    /\ IF source_get_data_s16(src, cd, frames) # 0
       THEN /\ lastOp' = "source_err"
            /\ UNCHANGED <<pc, loc>>
       ELSE /\ pc' = "src_loop"
            /\ loc' = [x |-> src.rd, w |-> buf.w_ptr, frames |-> frames,
                       frames_left |-> frames, bytes |-> frames * cd.frame_bytes,
                       copied |-> 0]
            /\ lastOp' = "source_call"
    /\ acc' = {}
    /\ UNCHANGED <<buf, mem, emph, fft, fft_buf, prev_data, cd, src, state, lifeVars, pvVars, fftVars>>

\* One iteration of while (frames_left) { ... }
stft_process_source_s16_loop ==
    /\ pc = "src_loop"
    /\ loc.frames_left # 0
    /\ LET x_end == src.x_size
           n1 == (x_end - loc.x) \div cd.channels
           n2 == stft_process_buffer_samples_without_wrap(buf, loc.w)
           n == MIN(MIN(n1, n2), loc.frames)
           e == source_copy(n, cd, emph,
                    [i |-> 0, x |-> loc.x, w |-> loc.w, m |-> mem,
                     delay |-> emph.delay, acc |-> {}])
       IN /\ mem' = e.m
          /\ emph' = [emph EXCEPT !.delay = e.delay]
          /\ acc' = e.acc
          /\ loc' = [loc EXCEPT
                        !.x = IF e.x >= x_end THEN e.x - src.x_size ELSE e.x,
                        !.w = stft_process_buffer_wrap(buf, e.w),
                        !.frames = loc.frames - n,
                        !.copied = loc.copied + MAX(n, 0)]
    /\ lastOp' = "source_loop"
    /\ UNCHANGED <<buf, fft, fft_buf, prev_data, cd, src, state, pc, lifeVars, pvVars, fftVars>>

\* After the loop: release the source, update the counters, store w_ptr
stft_process_source_s16_return ==
    /\ pc = "src_loop"
    /\ loc.frames_left = 0
    /\ src' = source_release_data(src, cd, loc.bytes)
    /\ buf' = [buf EXCEPT !.s_avail = buf.s_avail + loc.frames,
                          !.s_free = buf.s_free - loc.frames,
                          !.w_ptr = loc.w]
    /\ pc' = "idle"
    /\ loc' = NoLoc
    /\ acc' = {}
    /\ lastOp' = "source"
    /\ UNCHANGED <<mem, emph, fft, fft_buf, prev_data, cd, state, lifeVars, pvVars, fftVars>>

(* ------------------------------------------------------------------ *)
(* The allocator.  heap.blocks[p] is the block at pointer p, heap.log   *)
(* the allocations and releases of the call in progress, heap.n the     *)
(* allocations that call has asked for, and heap.bad records a release  *)
(* or a read of a block that is no longer allocated.                    *)
(* ------------------------------------------------------------------ *)
NULL == 0

EINVAL == 22

ENOMEM == 12

NoHeap == [blocks |-> << >>, log |-> << >>, n |-> 0, bad |-> FALSE]

NoPtr == [buffers |-> NULL, fft_buf |-> NULL, fft_out |-> NULL,
          fft_plan |-> NULL, ifft_plan |-> NULL]

\* rzalloc() / mod_zalloc(): a fresh zeroed block, or NULL when the
\* failAt-th request of the call is the one the allocator cannot serve.
\* Result: [H, p]
rzalloc(H, what, failAt) ==
    IF H.n + 1 = failAt
    THEN [H |-> [H EXCEPT !.n = @ + 1], p |-> NULL]
    ELSE [H |-> [H EXCEPT !.n = @ + 1,
                          !.blocks = Append(@, [what |-> what, live |-> TRUE,
                                                bit_reverse_idx |-> NULL,
                                                size |-> 0, len |-> 0,
                                                data |-> << >>]),
                          !.log = Append(@, <<"alloc", Len(H.blocks) + 1>>)],
          p |-> Len(H.blocks) + 1]

\* rfree() / mod_free(): NULL is ignored; releasing a block that is not
\* allocated corrupts the heap, which heap.bad records.
rfree(H, p) ==
    IF p = NULL THEN H
    ELSE IF H.blocks[p].live
         THEN [H EXCEPT !.blocks[p].live = FALSE, !.log = Append(@, <<"free", p>>)]
         ELSE [H EXCEPT !.bad = TRUE, !.log = Append(@, <<"free", p>>)]

(* ------------------------------------------------------------------ *)
(* fft_common.c: plans                                                 *)
(* ------------------------------------------------------------------ *)
FFT_SIZE_MAX == 1024

FFT_SIZE_MIN == 1

\* while (lim < size) { lim <<= 1; len++; }   st = [lim, len]
RECURSIVE exponent_loop(_, _)
exponent_loop(size, st) ==
    IF st.lim < size
    THEN exponent_loop(size, [lim |-> st.lim * 2, len |-> st.len + 1])
    ELSE st

\* Result: [H, p]
fft_plan_common_new(H, inb, outb, size, bits, failAt) ==
    IF inb = NULL \/ outb = NULL THEN [H |-> H, p |-> NULL]
    ELSE IF size # round_up_to_pow2(size) THEN [H |-> H, p |-> NULL]
    ELSE LET a == rzalloc(H, "fft_plan", failAt)
             e == exponent_loop(size, [lim |-> 1, len |-> 0])
         IN IF a.p = NULL THEN a
            ELSE IF bits \notin {16, 32} THEN [H |-> a.H, p |-> NULL]
            ELSE [H |-> [a.H EXCEPT !.blocks[a.p].size = e.lim,
                                    !.blocks[a.p].len = e.len],
                  p |-> a.p]

\* Mutant: the bit of the odd indices is dropped
Mut_or_bit_drops_bit(a, bit) == a

\* a | bit for a bit that is 0 or a power of two
or_bit(a, bit) ==
    IF bit = 0 THEN a
    ELSE IF (a \div bit) % 2 = 1 THEN a ELSE a + bit

\* for (i = lo; i < hi; ++i)
\*     bit_reverse_idx[i] = (bit_reverse_idx[i >> 1] >> 1) | ((i & 1) << (len - 1));
\* The entries are uint16_t.  The iterations run in the order of the loop,
\* the first half of the range before the second.
RECURSIVE bit_reverse_loop(_, _, _, _)
bit_reverse_loop(tbl, lo, hi, len) ==
    IF hi <= lo THEN tbl
    ELSE IF hi = lo + 1
    THEN [tbl EXCEPT ![lo] = or_bit(tbl[lo \div 2] \div 2,
                                    (lo % 2) * (2 ^ (len - 1))) % 65536]
    ELSE Then(bit_reverse_loop(tbl, lo, (lo + hi) \div 2, len),
              LAMBDA t : bit_reverse_loop(t, (lo + hi) \div 2, hi, len))

fft_plan_init_bit_reverse(bit_reverse_idx, size, len) ==
    bit_reverse_loop(bit_reverse_idx, 1, size, len)

\* The block mod_zalloc() returns for count entries: all zero
zeroed(count) == [i \in 0 .. (count - 1) |-> 0]

\* Mutant: the upper limit of the size is not checked
Mut_mod_fft_plan_new_no_max(H, inb, outb, size, bits, failAt) ==
    IF size < FFT_SIZE_MIN THEN [H |-> H, p |-> NULL]
    ELSE LET c == fft_plan_common_new(H, inb, outb, size, bits, failAt)
             t == rzalloc(c.H, "bit_reverse_idx", failAt)
         IN IF c.p = NULL THEN c
            ELSE IF t.p = NULL THEN [H |-> rfree(t.H, c.p), p |-> NULL]
            ELSE [H |-> [t.H EXCEPT !.blocks[c.p].bit_reverse_idx = t.p,
                                    !.blocks[t.p].data =
                                        fft_plan_init_bit_reverse(
                                            zeroed(c.H.blocks[c.p].size),
                                            c.H.blocks[c.p].size,
                                            c.H.blocks[c.p].len)],
                  p |-> c.p]

\* Result: [H, p]
mod_fft_plan_new(H, inb, outb, size, bits, failAt) ==
    IF size > FFT_SIZE_MAX \/ size < FFT_SIZE_MIN THEN [H |-> H, p |-> NULL]
    ELSE LET c == fft_plan_common_new(H, inb, outb, size, bits, failAt)
             t == rzalloc(c.H, "bit_reverse_idx", failAt)
         IN IF c.p = NULL THEN c
            ELSE IF t.p = NULL THEN [H |-> rfree(t.H, c.p), p |-> NULL]
            ELSE [H |-> [t.H EXCEPT !.blocks[c.p].bit_reverse_idx = t.p,
                                    !.blocks[t.p].data =
                                        fft_plan_init_bit_reverse(
                                            zeroed(c.H.blocks[c.p].size),
                                            c.H.blocks[c.p].size,
                                            c.H.blocks[c.p].len)],
                  p |-> c.p]

\* Reading plan->bit_reverse_idx of a plan that was released already is a
\* use after free, recorded in heap.bad.
mod_fft_plan_free(H, plan) ==
    IF plan = NULL THEN H
    ELSE IF ~H.blocks[plan].live THEN [H EXCEPT !.bad = TRUE]
    ELSE rfree(rfree(H, H.blocks[plan].bit_reverse_idx), plan)

FFT_MULTI_COUNT_MAX == 3

\* struct fft_multi_plan as mod_zalloc() returns it
ZeroMultiPlan ==
    [what |-> "fft_multi_plan", live |-> TRUE, bit_reverse_idx |-> NULL,
     size |-> 0, len |-> 0, data |-> << >>,
     fft_plan |-> [i \in 0 .. (FFT_MULTI_COUNT_MAX - 1) |-> NULL],
     tmp_i32 |-> NULL, total_size |-> 0, fft_size |-> 0, num_ffts |-> 0]

\* for (i = 0; i < plan->num_ffts; i++) { plan->fft_plan[i] = fft_plan_common_new(...);
\*     if (!plan->fft_plan[i]) goto err_free_buffer;
\*     plan->fft_plan[i]->bit_reverse_idx = plan->bit_reverse_idx; }
\* st = [H, ok]; p is the multi plan, tmp the buffer of the sub-plans
RECURSIVE multi_sub_plans(_, _, _, _, _)
multi_sub_plans(st, p, tmp, i, failAt) ==
    IF i < st.H.blocks[p].num_ffts
    THEN LET c == fft_plan_common_new(st.H, tmp, tmp, st.H.blocks[p].fft_size,
                                      32, failAt)
         IN IF c.p = NULL
            THEN [H |-> c.H, ok |-> FALSE]
            ELSE multi_sub_plans(
                     [H |-> [c.H EXCEPT !.blocks[p].fft_plan[i] = c.p,
                                        !.blocks[c.p].bit_reverse_idx =
                                            c.H.blocks[p].bit_reverse_idx],
                      ok |-> TRUE],
                     p, tmp, i + 1, failAt)
    ELSE st

\* err_free_buffer: / err_free_bit_reverse: / err:
goto_err_free_buffer(H, p) ==
    rfree(rfree(rfree(H, H.blocks[p].tmp_i32), H.blocks[p].bit_reverse_idx), p)

goto_err_free_bit_reverse(H, p) == rfree(rfree(H, H.blocks[p].bit_reverse_idx), p)

goto_err(H, p) == rfree(H, p)

\* Mutant: no sub-transform size is too large
Mut_multi_fft_size_never_illegal(fft_size) == FALSE

\* if (plan->fft_size > FFT_SIZE_MAX) goto err;
multi_fft_size_illegal(fft_size) == fft_size > FFT_SIZE_MAX

\* if (size == size_pow2) num_ffts = 1; else if (size_div3 * 3 == size)
\* num_ffts = 3; else goto err;   0 stands for the goto
multi_num_ffts(size) ==
    IF size = round_up_to_pow2(size) THEN 1
    ELSE IF (size \div 3) * 3 = size THEN 3
    ELSE 0

\* Result: [H, p, fault].  fault: the call read plan->fft_plan[0]->size
\* through a null pointer.
mod_fft_multi_plan_new(H, inb, outb, size, bits, failAt) ==
    IF inb = NULL \/ outb = NULL THEN [H |-> H, p |-> NULL, fault |-> FALSE]
    ELSE IF size < FFT_SIZE_MIN THEN [H |-> H, p |-> NULL, fault |-> FALSE]
    ELSE
    LET a == rzalloc(H, "fft_multi_plan", failAt)
        n == multi_num_ffts(size)
    IN
    IF a.p = NULL THEN [H |-> a.H, p |-> NULL, fault |-> FALSE]
    ELSE IF n = 0 THEN [H |-> goto_err(a.H, a.p), p |-> NULL, fault |-> FALSE]
    ELSE
    LET H1 == [a.H EXCEPT !.blocks[a.p] =
                   [ZeroMultiPlan EXCEPT !.num_ffts = n, !.total_size = size,
                                         !.fft_size = size \div n]]
    IN
    IF multi_fft_size_illegal(size \div n)
    THEN [H |-> goto_err(H1, a.p), p |-> NULL, fault |-> FALSE]
    ELSE
    LET t == rzalloc(H1, "bit_reverse_idx", failAt)
        H2 == [t.H EXCEPT !.blocks[a.p].bit_reverse_idx = t.p]
    IN
    IF t.p = NULL THEN [H |-> goto_err(t.H, a.p), p |-> NULL, fault |-> FALSE]
    ELSE IF bits = 16
    THEN \* no sub-plan is made: plan->fft_plan[0] is still NULL below
         [H |-> H2, p |-> a.p, fault |-> TRUE]
    ELSE IF bits # 32
    THEN [H |-> goto_err(H2, a.p), p |-> NULL, fault |-> FALSE]
    ELSE
    LET b == IF n > 1 THEN rzalloc(H2, "tmp_i32", failAt)
                      ELSE [H |-> H2, p |-> inb]
        H3 == [b.H EXCEPT !.blocks[a.p].tmp_i32 = b.p]
        m == multi_sub_plans([H |-> H3, ok |-> TRUE], a.p, b.p, 0, failAt)
        p0 == m.H.blocks[a.p].fft_plan[0]
    IN
    IF b.p = NULL
    THEN [H |-> goto_err_free_bit_reverse(b.H, a.p), p |-> NULL, fault |-> FALSE]
    ELSE IF ~m.ok
    THEN [H |-> goto_err_free_buffer(m.H, a.p), p |-> NULL, fault |-> FALSE]
    ELSE [H |-> [m.H EXCEPT !.blocks[t.p].data =
                     fft_plan_init_bit_reverse(zeroed(size \div n),
                                               m.H.blocks[p0].size,
                                               m.H.blocks[p0].len)],
          p |-> a.p, fault |-> FALSE]

RECURSIVE multi_free_loop(_, _, _)
multi_free_loop(H, plan, i) ==
    IF i < H.blocks[plan].num_ffts
    THEN multi_free_loop(rfree(H, H.blocks[plan].fft_plan[i]), plan, i + 1)
    ELSE H

mod_fft_multi_plan_free(H, plan) ==
    IF plan = NULL THEN H
    ELSE LET H1 == multi_free_loop(H, plan, 0)
             H2 == IF H.blocks[plan].num_ffts > 1
                   THEN rfree(H1, H.blocks[plan].tmp_i32) ELSE H1
         IN rfree(rfree(H2, H.blocks[plan].bit_reverse_idx), plan)

(* ------------------------------------------------------------------ *)
(* Integer arithmetic of the transforms.  An int32_t is an integer in   *)
(* INT32_MIN .. INT32_MAX; an int64_t is five digits of 15 bits, the    *)
(* lowest first, the four low ones in 0 .. LIMB-1 and the highest       *)
(* signed.                                                             *)
(* ------------------------------------------------------------------ *)
INT32_MAX == 2147483647

INT32_MIN == -2147483647 - 1

LIMB == 32768

\* int32_t a + b; the value is the one of two's complement wrap-around
add32(a, b) ==
    IF b >= 0
    THEN IF a > INT32_MAX - b THEN (a + INT32_MIN) + (b + INT32_MIN) ELSE a + b
    ELSE IF a < INT32_MIN - b THEN (a - INT32_MIN) + (b - INT32_MIN) ELSE a + b

add32_overflows(a, b) ==
    IF b >= 0 THEN a > INT32_MAX - b ELSE a < INT32_MIN - b

\* int32_t a - b; the value is the one of two's complement wrap-around
sub32(a, b) ==
    IF b <= 0
    THEN IF a > INT32_MAX + b THEN (a + INT32_MIN) - (b - INT32_MIN) ELSE a - b
    ELSE IF a < INT32_MIN + b THEN (a - INT32_MIN) - (b + INT32_MIN) ELSE a - b

sub32_overflows(a, b) ==
    IF b <= 0 THEN a > INT32_MAX + b ELSE a < INT32_MIN + b

\* sat_int32((int64_t)a + b)
sat_add32(a, b) ==
    IF add32_overflows(a, b)
    THEN IF b >= 0 THEN INT32_MAX ELSE INT32_MIN
    ELSE a + b

\* The carry into digit i of the column sums c
RECURSIVE carry_in(_, _)
carry_in(c, i) ==
    IF i = 1 THEN 0 ELSE (c[i - 1] + carry_in(c, i - 1)) \div LIMB

\* The digits of the int64_t whose column sums are c
int64_digits(c) ==
    Then(c, LAMBDA v :
       <<(v[1] + carry_in(v, 1)) % LIMB, (v[2] + carry_in(v, 2)) % LIMB,
         (v[3] + carry_in(v, 3)) % LIMB, (v[4] + carry_in(v, 4)) % LIMB,
         v[5] + carry_in(v, 5)>>)

\* The three digits of an int32_t
int32_digits(a) == <<a % LIMB, (a \div LIMB) % LIMB, a \div (LIMB * LIMB)>>

\* (int64_t)a * b
mul64(a, b) ==
    Then(int32_digits(a), LAMBDA x :
    Then(int32_digits(b), LAMBDA y :
       int64_digits(<<x[1] * y[1],
                      x[1] * y[2] + x[2] * y[1],
                      x[1] * y[3] + x[2] * y[2] + x[3] * y[1],
                      x[2] * y[3] + x[3] * y[2],
                      x[3] * y[3]>>)))

add64(x, y) ==
    int64_digits(<<x[1] + y[1], x[2] + y[2], x[3] + y[3], x[4] + y[4], x[5] + y[5]>>)

sub64(x, y) ==
    int64_digits(<<x[1] - y[1], x[2] - y[2], x[3] - y[3], x[4] - y[4], x[5] - y[5]>>)

\* (int32_t)(x >> 31): bits 31 .. 62 of x
shr31_int32(x) ==
    (x[3] \div 2) + x[4] * (LIMB \div 2)
        + (((x[5] + 4) % 8) - 4) * ((LIMB * LIMB) \div 2)

\* x >> 30 of an int64_t x that fits 32 bits afterwards
shr30(x) == x[3] + x[4] * LIMB + x[5] * (LIMB * LIMB)

\* Q_MULTSR_32X32(px, py, 31, 31, 31): (((px * py) >> 30) + 1) >> 1
Q_MULTSR_32X32_31(px, py) ==
    Then(mul64(px, py), LAMBDA x : (shr30(x) + 1) \div 2)

(* ------------------------------------------------------------------ *)
(* fft_32.c: the helpers of struct icomplex32                          *)
(* ------------------------------------------------------------------ *)
icomplex32_add(in1, in2) ==
    [real |-> add32(in1.real, in2.real), imag |-> add32(in1.imag, in2.imag)]

icomplex32_adds(in1, in2) ==
    [real |-> sat_add32(in1.real, in2.real), imag |-> sat_add32(in1.imag, in2.imag)]

icomplex32_sub(in1, in2) ==
    [real |-> sub32(in1.real, in2.real), imag |-> sub32(in1.imag, in2.imag)]

icomplex32_mul(in1, in2) ==
    Then(<<in1.real, in1.imag, in2.real, in2.imag>>, LAMBDA v :
    Then(<<mul64(v[1], v[3]), mul64(v[2], v[4]), mul64(v[1], v[4]),
           mul64(v[2], v[3])>>, LAMBDA m :
    Then(<<sub64(m[1], m[2]), add64(m[3], m[4])>>, LAMBDA w :
       [real |-> shr31_int32(w[1]), imag |-> shr31_int32(w[2])])))

\* comp->imag = SATP_INT32((int64_t)-1 * comp->imag)
icomplex32_conj(comp) ==
    [real |-> comp.real,
     imag |-> IF comp.imag = INT32_MIN THEN INT32_MAX ELSE -comp.imag]

\* SATP_INT32(SATM_INT32((int64_t)x << n)) for n > 0
sat_shift_left(x, n) ==
    IF x > INT32_MAX \div (2 ^ n) THEN INT32_MAX
    ELSE IF x < INT32_MIN \div (2 ^ n) THEN INT32_MIN
    ELSE x * (2 ^ n)

\* n > 0: left shift with saturation, n <= 0: arithmetic right shift
icomplex32_shift(input, n) ==
    IF n > 0
    THEN [real |-> sat_shift_left(input.real, n),
          imag |-> sat_shift_left(input.imag, n)]
    ELSE [real |-> input.real \div (2 ^ (-n)),
          imag |-> input.imag \div (2 ^ (-n))]

(* ------------------------------------------------------------------ *)
(* The twiddle factors: round(cos(2 pi k / 1024) * 2^31) and            *)
(* round(-sin(2 pi k / 1024) * 2^31) for the table of fft_execute_32,   *)
(* the same with a period of 3072 for the table of the composite        *)
(* transform, both saturated to int32_t.  Only the entries the sizes    *)
(* up to 16 and 3 * 16 read are listed.                                 *)
(* ------------------------------------------------------------------ *)
twiddle_real_32 ==
    0 :> 2147483647 @@ 64 :> 1984016189 @@ 128 :> 1518500250
    @@ 192 :> 821806413 @@ 256 :> 0 @@ 320 :> -821806413
    @@ 384 :> -1518500250 @@ 448 :> -1984016189

twiddle_imag_32 ==
    0 :> 0 @@ 64 :> -821806413 @@ 128 :> -1518500250 @@ 192 :> -1984016189
    @@ 256 :> INT32_MIN @@ 320 :> -1984016189 @@ 384 :> -1518500250
    @@ 448 :> -821806413

multi_twiddle_real_32 ==
    0 :> 2147483647 @@ 64 :> 2129111628 @@ 128 :> 2074309917
    @@ 192 :> 1984016189 @@ 256 :> 1859775393 @@ 320 :> 1703713325
    @@ 384 :> 1518500250 @@ 448 :> 1307305214 @@ 512 :> 1073741824
    @@ 576 :> 821806413 @@ 640 :> 555809667 @@ 704 :> 280302863 @@ 768 :> 0
    @@ 832 :> -280302863 @@ 896 :> -555809667 @@ 960 :> -821806413
    @@ 1024 :> -1073741824 @@ 1088 :> -1307305214 @@ 1152 :> -1518500250
    @@ 1216 :> -1703713325 @@ 1280 :> -1859775393 @@ 1344 :> -1984016189
    @@ 1408 :> -2074309917 @@ 1472 :> -2129111628 @@ 1536 :> INT32_MIN
    @@ 1600 :> -2129111628 @@ 1664 :> -2074309917 @@ 1728 :> -1984016189
    @@ 1792 :> -1859775393 @@ 1856 :> -1703713325 @@ 1920 :> -1518500250
    @@ 1984 :> -1307305214

multi_twiddle_imag_32 ==
    0 :> 0 @@ 64 :> -280302863 @@ 128 :> -555809667 @@ 192 :> -821806413
    @@ 256 :> -1073741824 @@ 320 :> -1307305214 @@ 384 :> -1518500250
    @@ 448 :> -1703713325 @@ 512 :> -1859775393 @@ 576 :> -1984016189
    @@ 640 :> -2074309917 @@ 704 :> -2129111628 @@ 768 :> INT32_MIN
    @@ 832 :> -2129111628 @@ 896 :> -2074309917 @@ 960 :> -1984016189
    @@ 1024 :> -1859775393 @@ 1088 :> -1703713325 @@ 1152 :> -1518500250
    @@ 1216 :> -1307305214 @@ 1280 :> -1073741824 @@ 1344 :> -821806413
    @@ 1408 :> -555809667 @@ 1472 :> -280302863 @@ 1536 :> 0
    @@ 1600 :> 280302863 @@ 1664 :> 555809667 @@ 1728 :> 821806413
    @@ 1792 :> 1073741824 @@ 1856 :> 1307305214 @@ 1920 :> 1518500250
    @@ 1984 :> 1703713325

FFT_MULTI_TWIDDLE_SIZE == 2048

(* ------------------------------------------------------------------ *)
(* fft_32.c: fft_execute_32                                            *)
(* ------------------------------------------------------------------ *)
\* for (i = 0; i < size; i++) icomplex32_conj(&inb[i]);
conj_all(inb) == [i \in DOMAIN inb |-> icomplex32_conj(inb[i])]

\* step 1: for (i = 1; i < plan->size; ++i)
\*     icomplex32_shift(&inb[i], -(plan->len), &outb[plan->bit_reverse_idx[i]]);
RECURSIVE fft_permute_loop(_, _, _, _, _, _)
fft_permute_loop(outb, inb, tbl, len, i, size) ==
    IF i < size
    THEN Then([outb EXCEPT ![tbl[i]] = icomplex32_shift(inb[i], -len)],
              LAMBDA o : fft_permute_loop(o, inb, tbl, len, i + 1, size))
    ELSE outb

fft_permute(outb, inb, tbl, len, size) == fft_permute_loop(outb, inb, tbl, len, 1, size)

\* One butterfly: lines 127-138.  st = [outb, ub]; ub records that an
\* icomplex32_add or icomplex32_sub left the range of int32_t.
fft_butterfly(st, top, bottom, index) ==
    Then(icomplex32_mul([real |-> twiddle_real_32[index],
                         imag |-> twiddle_imag_32[index]], st.outb[bottom]),
         LAMBDA tmp2 :
    Then(st.outb[top], LAMBDA tmp1 :
       [outb |-> [st.outb EXCEPT ![top] = icomplex32_add(tmp1, tmp2),
                                 ![bottom] = icomplex32_sub(tmp1, tmp2)],
        ub |-> \/ st.ub
               \/ add32_overflows(tmp1.real, tmp2.real)
               \/ add32_overflows(tmp1.imag, tmp2.imag)
               \/ sub32_overflows(tmp1.real, tmp2.real)
               \/ sub32_overflows(tmp1.imag, tmp2.imag)]))

\* for (j = 0; j < n; ++j)
RECURSIVE fft_j_loop(_, _, _, _)
fft_j_loop(st, depth, k, j) ==
    IF j < 2 ^ (depth - 1)
    THEN Then(fft_butterfly(st, k + j, k + j + 2 ^ (depth - 1),
                            (FFT_SIZE_MAX \div (2 ^ depth)) * j),
              LAMBDA s : fft_j_loop(s, depth, k, j + 1))
    ELSE st

\* for (k = 0; k < plan->size; k += m)
RECURSIVE fft_k_loop(_, _, _, _)
fft_k_loop(st, depth, k, size) ==
    IF k < size
    THEN Then(fft_j_loop(st, depth, k, 0),
              LAMBDA s : fft_k_loop(s, depth, k + 2 ^ depth, size))
    ELSE st

\* step 2: for (depth = 1; depth <= plan->len; ++depth)
RECURSIVE fft_depth_loop(_, _, _, _)
fft_depth_loop(st, depth, len, size) ==
    IF depth <= len
    THEN Then(fft_k_loop(st, depth, 0, size),
              LAMBDA s : fft_depth_loop(s, depth + 1, len, size))
    ELSE st

\* for (i = 0; i < plan->size; i++) icomplex32_shift(&outb[i], plan->len, &outb[i]);
shift_back(outb, len) == [i \in DOMAIN outb |-> icomplex32_shift(outb[i], len)]

\* fft_execute_32(plan, ifft) for the plan at pointer p of the heap H, with
\* the contents inb and outb of its two buffers (the constructor refuses
\* NULL buffers).  Result: [inb, outb, perm, ub], perm being the output
\* buffer as step 1 left it.
fft_execute_32(H, p, inb, outb, ifft) ==
    IF p = NULL
    THEN [inb |-> inb, outb |-> outb, perm |-> outb, ub |-> FALSE]
    ELSE IF H.blocks[p].bit_reverse_idx = NULL
    THEN [inb |-> inb, outb |-> outb, perm |-> outb, ub |-> FALSE]
    ELSE
    LET plan == H.blocks[p]
        tbl == H.blocks[plan.bit_reverse_idx].data
    IN Then(IF ifft THEN conj_all(inb) ELSE inb, LAMBDA in1 :
       Then(fft_permute(outb, in1, tbl, plan.len, plan.size), LAMBDA o1 :
       Then(fft_depth_loop([outb |-> o1, ub |-> FALSE], 1, plan.len, plan.size),
            LAMBDA s :
               [inb |-> in1,
                outb |-> IF ifft THEN shift_back(s.outb, plan.len) ELSE s.outb,
                perm |-> o1,
                ub |-> s.ub])))

(* ------------------------------------------------------------------ *)
(* fft_common.c: the composite transform                               *)
(* ------------------------------------------------------------------ *)
DFT3_COEFR == -1073741824

DFT3_COEFI == 1859775393

DFT3_SCALE == 715827883

\* dft3_32(x_in, y): x_in and y are indexed 0 .. 2
dft3_32(x_in) ==
    Then(<<[real |-> Q_MULTSR_32X32_31(x_in[0].real, DFT3_SCALE),
            imag |-> Q_MULTSR_32X32_31(x_in[0].imag, DFT3_SCALE)],
           [real |-> Q_MULTSR_32X32_31(x_in[1].real, DFT3_SCALE),
            imag |-> Q_MULTSR_32X32_31(x_in[1].imag, DFT3_SCALE)],
           [real |-> Q_MULTSR_32X32_31(x_in[2].real, DFT3_SCALE),
            imag |-> Q_MULTSR_32X32_31(x_in[2].imag, DFT3_SCALE)],
           [real |-> DFT3_COEFR, imag |-> -DFT3_COEFI],
           [real |-> DFT3_COEFR, imag |-> DFT3_COEFI]>>,
         LAMBDA x :  \* x[1 .. 3] are x[0 .. 2] of the code, x[4] c0, x[5] c1
       (0 :> icomplex32_adds(x[3], icomplex32_adds(x[1], x[2])))
       @@ (1 :> icomplex32_adds(x[1], icomplex32_adds(icomplex32_mul(x[4], x[2]),
                                                      icomplex32_mul(x[5], x[3]))))
       @@ (2 :> icomplex32_adds(x[1], icomplex32_adds(icomplex32_mul(x[5], x[2]),
                                                      icomplex32_mul(x[4], x[3])))))

\* bzero(buffer, count * sizeof(struct icomplex32))
bzero(buffer, count) ==
    [i \in DOMAIN buffer |-> IF i < count THEN ZeroComplex ELSE buffer[i]]

\* sat_int32((int64_t)x * 3)
sat_mul3(x) ==
    IF x > INT32_MAX \div 3 THEN INT32_MAX
    ELSE IF x <= INT32_MIN \div 3 THEN INT32_MIN
    ELSE x * 3

\* The body of the last loop of fft_multi_execute_32: the imaginary part
\* is negated, the sample is shifted back and tripled.  -INT32_MIN is
\* outside int32_t; fft_multi_execute_32 reports it in ub, and the value
\* here is the one two's complement gives.
multi_shift_back(c, len) ==
    LET neg == [real |-> c.real,
                imag |-> IF c.imag = INT32_MIN THEN INT32_MIN ELSE -c.imag]
        sh == icomplex32_shift(neg, len)
    IN [real |-> sat_mul3(sh.real), imag |-> sat_mul3(sh.imag)]

\* The sub-transform j: tmp_i32[j][i] = inb32[k++] for the k of its turn,
\* bzero(&tmp_o32[j][0], ...) and fft_execute_32(plan->fft_plan[j], 0)
multi_sub_execute(H, plan, in1, j) ==
    fft_execute_32(H, plan.fft_plan[j],
                   [i \in 0 .. (plan.fft_size - 1) |-> in1[i * plan.num_ffts + j]],
                   [i \in 0 .. (plan.fft_size - 1) |-> ZeroComplex],
                   FALSE)

\* fft_multi_execute_32(plan, ifft) for the multi plan at pointer p of the
\* heap H with the contents inb and outb of its buffers; the buffers
\* tmp_i32[] and tmp_o32[] are written before they are read.
\* Result: [inb, outb, ub], ub telling that an int32_t operation of the call
\* left the range of int32_t
fft_multi_execute_32(H, p, inb, outb, ifft) ==
    LET plan == H.blocks[p]
    IN
    IF plan.num_ffts = 1
    THEN Then(fft_execute_32(H, plan.fft_plan[0], inb,
                             bzero(outb, plan.fft_size), ifft),
              LAMBDA r : [inb |-> r.inb, outb |-> r.outb, ub |-> r.ub])
    ELSE
    Then(IF ifft THEN conj_all(inb) ELSE inb, LAMBDA in1 :
    Then((0 :> multi_sub_execute(H, plan, in1, 0))
         @@ (1 :> multi_sub_execute(H, plan, in1, 1))
         @@ (2 :> multi_sub_execute(H, plan, in1, 2)),
         LAMBDA sub :
    Then([j \in 0 .. (plan.num_ffts - 1) |->
            [i \in 0 .. (plan.fft_size - 1) |->
               IF j = 0 THEN sub[j].outb[i]
               ELSE icomplex32_mul(
                        [real |-> multi_twiddle_real_32[
                                      j * i * ((FFT_MULTI_TWIDDLE_SIZE \div 2)
                                               \div plan.fft_size)],
                         imag |-> multi_twiddle_imag_32[
                                      j * i * ((FFT_MULTI_TWIDDLE_SIZE \div 2)
                                               \div plan.fft_size)]],
                        sub[j].outb[i])]],
         LAMBDA tmp_o :
    Then([i \in 0 .. (plan.fft_size - 1) |->
            dft3_32([j \in 0 .. 2 |-> tmp_o[j][i]])],
         LAMBDA y :
    Then([i \in 0 .. (plan.total_size - 1) |->
            y[i % plan.fft_size][i \div plan.fft_size]],
         LAMBDA o1 :
            [inb |-> in1,
             outb |-> IF ifft
                      THEN [i \in DOMAIN o1 |->
                              multi_shift_back(o1[i],
                                               H.blocks[plan.fft_plan[0]].len)]
                      ELSE o1,
             ub |-> \/ \E j \in 0 .. (plan.num_ffts - 1) : sub[j].ub
                    \/ ifft /\ \E i \in DOMAIN o1 : o1[i].imag = INT32_MIN])))))

NoHist == [acc |-> 0, calls |-> 0, onehop |-> TRUE, configured |-> FALSE,
           prepared |-> FALSE]

NoSink == [y_size |-> 0, wr |-> 0, free |-> 0, data |-> << >>]

NoPlanCall == [op |-> "none"]

NoXform == [pc |-> "none"]

(* ------------------------------------------------------------------ *)
(* phase_vocoder_common.c: the processing function                     *)
(* ------------------------------------------------------------------ *)
\* memset(cd, 0, sizeof(*cd)) of struct phase_vocoder_comp_data
ZeroCompData ==
    [config |-> NULL, max_frames |-> 0, frame_bytes |-> 0, channels |-> 0,
     fft_done |-> FALSE, phase_vocoder_func |-> "NULL",
     ibuf |-> [ch \in 0 .. 1 |-> stft_process_init_buffer(0, 0)],
     fft |-> [fft_size |-> 0, fft_hop_size |-> 0],
     ptr |-> NoPtr]

NoOut == [frames |-> 0, bytes |-> 0, stores |-> 0, y0 |-> 0]

stft_prepare_fft(c, channel) ==
    IF c.ibuf[channel].s_avail < c.fft.fft_hop_size THEN 0 ELSE 1

\* phase_vocoder_source_s32(): frames samples go into the ring of every channel
phase_vocoder_source_s32(c, frames) ==
    [c EXCEPT !.ibuf = [ch \in DOMAIN c.ibuf |->
        IF ch < c.channels
        THEN [c.ibuf[ch] EXCEPT
                 !.s_avail = @ + frames,
                 !.s_free = @ - frames,
                 !.w_ptr = stft_process_buffer_wrap(c.ibuf[ch], @ + frames)]
        ELSE c.ibuf[ch]]]

\* phase_vocoder_fill_fft_buffer(): one hop is read out of the ring of ch
phase_vocoder_fill_fft_buffer(c, ch) ==
    [c EXCEPT !.ibuf[ch] = [c.ibuf[ch] EXCEPT
                 !.s_avail = @ - c.fft.fft_hop_size,
                 !.s_free = @ + c.fft.fft_hop_size,
                 !.r_ptr = stft_process_buffer_wrap(c.ibuf[ch], @ + c.fft.fft_hop_size)]]

\* for (ch = 0; ch < cd->channels; ch++) of stft_do_fft_ifft
RECURSIVE stft_do_fft_ifft(_, _)
stft_do_fft_ifft(c, ch) ==
    IF ch < c.channels
    THEN IF stft_prepare_fft(c, ch) # 0
         THEN stft_do_fft_ifft([phase_vocoder_fill_fft_buffer(c, ch)
                                   EXCEPT !.fft_done = TRUE], ch + 1)
         ELSE stft_do_fft_ifft(c, ch + 1)
    ELSE c

\* sink_get_buffer_s32(): fails when the sink has less free space than asked
sink_get_buffer_s32(s, bytes) == IF bytes > s.free THEN -61 ELSE 0

\* sink_commit_buffer(): the write position moves on by the bytes produced
sink_commit_buffer(s, bytes) ==
    [s EXCEPT !.wr = (s.wr + bytes \div 4) % s.y_size, !.free = s.free - bytes]

\* while (samples) of phase_vocoder_output_zeros_s32; st = [y, samples, data, stores]
RECURSIVE output_zeros_loop(_, _)
output_zeros_loop(s, st) ==
    IF st.samples # 0
    THEN LET samples_without_wrap == MIN(s.y_size - st.y, st.samples)
         IN output_zeros_loop(s,
                [y |-> IF st.y + samples_without_wrap >= s.y_size
                       THEN st.y + samples_without_wrap - s.y_size
                       ELSE st.y + samples_without_wrap,
                 samples |-> st.samples - samples_without_wrap,
                 data |-> [i \in DOMAIN st.data |->
                             IF i >= st.y /\ i < st.y + samples_without_wrap
                             THEN 0 ELSE st.data[i]],
                 stores |-> st.stores + samples_without_wrap])
    ELSE st

\* Mutant: the sample count forgets the channels
Mut_output_zeros_one_channel(c, s, frames) ==
    LET samples == frames
        bytes == samples * 4
        e == output_zeros_loop(s, [y |-> s.wr, samples |-> samples,
                                   data |-> s.data, stores |-> 0])
    IN IF sink_get_buffer_s32(s, bytes) # 0
       THEN [sink |-> s, ret |-> sink_get_buffer_s32(s, bytes), bytes |-> 0, stores |-> 0]
       ELSE [sink |-> sink_commit_buffer([s EXCEPT !.data = e.data], bytes),
             ret |-> 0, bytes |-> bytes, stores |-> e.stores]

\* Result: [sink, ret, bytes, stores]: the sink, the status, the bytes
\* committed and the samples set to zero
phase_vocoder_output_zeros_s32(c, s, frames) ==
    LET samples == frames * c.channels
        bytes == samples * 4
        e == output_zeros_loop(s, [y |-> s.wr, samples |-> samples,
                                   data |-> s.data, stores |-> 0])
    IN IF sink_get_buffer_s32(s, bytes) # 0
       THEN [sink |-> s, ret |-> sink_get_buffer_s32(s, bytes), bytes |-> 0, stores |-> 0]
       ELSE [sink |-> sink_commit_buffer([s EXCEPT !.data = e.data], bytes),
             ret |-> 0, bytes |-> bytes, stores |-> e.stores]

\* phase_vocoder_sink_s32(): frames of the overlap-add output, whose values
\* the model does not compute (-1), go to the sink.  Result as above.
phase_vocoder_sink_s32(c, s, frames) ==
    LET samples == frames * c.channels
        bytes == samples * 4
    IN [sink |-> sink_commit_buffer(
                    [s EXCEPT !.data = [i \in DOMAIN s.data |->
                        IF ((i - s.wr) % s.y_size) < samples THEN -1 ELSE s.data[i]]],
                    bytes),
        ret |-> 0, bytes |-> bytes, stores |-> 0]

\* phase_vocoder_s32(mod, source, sink, frames)
phase_vocoder_s32(frames) ==
    \E c1 \in {phase_vocoder_source_s32(pvcd, frames)} :
    \E c2 \in {stft_do_fft_ifft(c1, 0)} :
    \E o \in {IF c2.fft_done
              THEN phase_vocoder_sink_s32(c2, sink, frames)
              ELSE phase_vocoder_output_zeros_s32(c2, sink, frames)} :
       /\ pvcd' = c2
       /\ sink' = o.sink
       /\ src' = [src EXCEPT !.avail = @ - frames]
       /\ produced' = [frames |-> frames, bytes |-> o.bytes, stores |-> o.stores,
                       y0 |-> sink.wr]
       /\ hist' = [hist EXCEPT !.acc = @ + frames,
                               !.calls = @ + 1,
                               !.onehop = @ /\ frames = c2.fft.fft_hop_size]
       /\ ret' = 0

(* ------------------------------------------------------------------ *)
(* stft_process_setup.c: setup and release                             *)
(* ------------------------------------------------------------------ *)
STFT_RECTANGULAR_WINDOW == 0

STFT_BLACKMAN_WINDOW == 1

STFT_HAMMING_WINDOW == 2

STFT_HANN_WINDOW == 3

STFT_POVEY_WINDOW == 4

\* sizeof(struct sof_stft_process_config), packed
SIZEOF_CONFIG == 104

\* Result: [ret, window]; window names the table written to state->window
stft_process_get_window(name) ==
    IF name = STFT_RECTANGULAR_WINDOW THEN [ret |-> 0, window |-> "rectangular"]
    ELSE IF name = STFT_BLACKMAN_WINDOW THEN [ret |-> 0, window |-> "blackman"]
    ELSE IF name = STFT_HAMMING_WINDOW THEN [ret |-> 0, window |-> "hamming"]
    ELSE IF name = STFT_POVEY_WINDOW THEN [ret |-> 0, window |-> "povey"]
    ELSE [ret |-> -EINVAL, window |-> "none"]

\* The checks of stft_process_setup on the configuration blob
config_size_illegal(c) == c.size # SIZEOF_CONFIG

config_features_illegal(c) ==
    ~c.round_to_power_of_two \/ ~c.snip_edges \/ c.subtract_mean \/ c.use_energy

config_rate_mismatch(c, sample_rate) == c.sample_frequency # sample_rate

\* Mutant: a channel index equal to the channel count is let through
Mut_config_channel_illegal_gt(c, channels) == c.channel > channels

config_channel_illegal(c, channels) == c.channel >= channels

\* The labels at the end of stft_process_setup; each falls through to the next
goto_free_buffers(H, P) == rfree(H, P.buffers)

goto_free_fft_buf(H, P) == goto_free_buffers(rfree(H, P.fft_buf), P)

goto_free_fft_out(H, P) == goto_free_fft_buf(rfree(H, P.fft_out), P)

goto_free_ifft_out(H, P) == goto_free_fft_out(rfree(H, P.fft_plan), P)

goto_free_window_out(H, P) == goto_free_ifft_out(rfree(H, P.ifft_plan), P)

\* The end of stft_process_setup: what the call leaves behind when it
\* returns r after reaching step stage (1..6: the step that failed, 7: done)
stft_process_setup_return(H, P, r, w, stage, max_frames, sample_rate) ==
    LET fs == config.frame_length
        padded == round_up_to_pow2(fs)
        hop == config.frame_shift
        buffer_size == fs + max_frames
    IN /\ ret' = r
       /\ heap' = H
       /\ pointers' = P
       /\ cd' = [cd EXCEPT !.max_frames = max_frames]
       /\ state' = [state EXCEPT
                       !.sample_rate = sample_rate,
                       !.source_channel =
                           IF config.channel < 0 THEN 0 ELSE config.channel,
                       !.prev_data_size = fs - hop,
                       !.window = w,
                       !.waiting_fill = IF r = 0 THEN TRUE ELSE @,
                       !.prev_samples_valid = IF r = 0 THEN FALSE ELSE @]
       /\ fft' = [fft EXCEPT
                       !.fft_size = fs,
                       !.fft_padded_size = padded,
                       !.fft_hop_size = hop,
                       !.half_fft_size = (padded \div 2) + 1,
                       !.fft_fill_start_idx = IF stage > 3 THEN 0 ELSE @]
       /\ buf' = IF stage > 1 THEN stft_process_init_buffer(0, buffer_size) ELSE buf
       /\ mem' = IF r = 0 THEN [i \in 0 .. (buffer_size - 1) |-> 0] ELSE << >>
       /\ fft_buf' = IF r = 0 THEN [i \in 0 .. (padded - 1) |-> ZeroComplex] ELSE << >>
       /\ prev_data' = IF r = 0 THEN [j \in 0 .. (fs - hop - 1) |-> 0] ELSE << >>

\* stft_process_setup(mod, max_frames, sample_rate, channels); failAt names
\* the allocation request the allocator fails (0: none).  Each \E binds the
\* value of one statement of the function.
stft_process_setup(max_frames, sample_rate, channels, failAt) ==
    /\ pc = "idle"
    /\ nsetup < MaxSetups
    /\ nsetup' = nsetup + 1
    /\ lastOp' = "setup"
    /\ acc' = {}
    /\ UNCHANGED <<emph, src, loc, pc, config, pvVars, fftVars>>
    /\ \E H0 \in {[heap EXCEPT !.log = << >>, !.n = 0]},
          padded \in {round_up_to_pow2(config.frame_length)} :
       IF \/ config_size_illegal(config)
          \/ config_features_illegal(config)
          \/ config_rate_mismatch(config, sample_rate)
       THEN /\ ret' = -EINVAL
            /\ heap' = H0
            /\ UNCHANGED <<pointers, cd, state, fft, buf, mem, fft_buf, prev_data>>
       ELSE IF config_channel_illegal(config, channels)
       THEN /\ ret' = -EINVAL
            /\ heap' = H0
            /\ cd' = [cd EXCEPT !.max_frames = max_frames]
            /\ state' = [state EXCEPT !.sample_rate = sample_rate]
            /\ UNCHANGED <<pointers, fft, buf, mem, fft_buf, prev_data>>
       ELSE
       \E a1 \in {rzalloc(H0, "buffers", failAt)} :
       \E P1 \in {[pointers EXCEPT !.buffers = a1.p]} :
       IF a1.p = NULL
       THEN stft_process_setup_return(a1.H, P1, -ENOMEM, "none", 1,
                                      max_frames, sample_rate)
       ELSE
       \E a2 \in {rzalloc(a1.H, "fft_buf", failAt)} :
       \E P2 \in {[P1 EXCEPT !.fft_buf = a2.p]} :
       IF a2.p = NULL
       THEN stft_process_setup_return(goto_free_buffers(a2.H, P2), P2, -ENOMEM,
                                      "none", 2, max_frames, sample_rate)
       ELSE
       \E a3 \in {rzalloc(a2.H, "fft_out", failAt)} :
       \E P3 \in {[P2 EXCEPT !.fft_out = a3.p]} :
       IF a3.p = NULL
       THEN stft_process_setup_return(goto_free_fft_buf(a3.H, P3), P3, -ENOMEM,
                                      "none", 3, max_frames, sample_rate)
       ELSE
       \E a4 \in {mod_fft_plan_new(a3.H, P3.fft_buf, P3.fft_out, padded, 32, failAt)} :
       \E P4 \in {[P3 EXCEPT !.fft_plan = a4.p]} :
       IF a4.p = NULL
       THEN stft_process_setup_return(goto_free_fft_out(a4.H, P4), P4, -EINVAL,
                                      "none", 4, max_frames, sample_rate)
       ELSE
       \E a5 \in {mod_fft_plan_new(a4.H, P4.fft_out, P4.fft_buf, padded, 32, failAt)} :
       \E P5 \in {[P4 EXCEPT !.ifft_plan = a5.p]} :
       IF a5.p = NULL
       THEN stft_process_setup_return(goto_free_ifft_out(a5.H, P5), P5, -EINVAL,
                                      "none", 5, max_frames, sample_rate)
       ELSE
       \E w \in {stft_process_get_window(config.window)} :
       IF w.ret < 0
       THEN stft_process_setup_return(goto_free_window_out(a5.H, P5), P5, w.ret,
                                      "none", 6, max_frames, sample_rate)
       ELSE stft_process_setup_return(a5.H, P5, 0, w.window, 7,
                                      max_frames, sample_rate)

\* stft_process_free_buffers(mod): the blocks behind the released pointers
\* are gone, the pointers keep their values
stft_process_free_buffers ==
    /\ pc = "idle"
    /\ \E H0 \in {[heap EXCEPT !.log = << >>, !.n = 0]} :
       \E H1 \in {mod_fft_plan_free(H0, pointers.fft_plan)} :
       \E H2 \in {rfree(H1, pointers.fft_buf)} :
       \E H3 \in {rfree(H2, pointers.fft_out)} :
          heap' = rfree(H3, pointers.buffers)
    /\ mem' = << >>
    /\ fft_buf' = << >>
    /\ prev_data' = << >>
    /\ acc' = {}
    /\ lastOp' = "free_buffers"
    /\ UNCHANGED <<buf, emph, fft, cd, src, state, loc, pc, pointers, config, ret, nsetup,
                   pvVars, fftVars>>

(* ------------------------------------------------------------------ *)
(* A stream from construction on: setup and release in any order, the *)
(* configuration blob and the allocator's failures in any combination  *)
(* ------------------------------------------------------------------ *)
Configs ==
    [size : {SIZEOF_CONFIG, SIZEOF_CONFIG - 4},
     round_to_power_of_two : {TRUE},
     snip_edges : {TRUE},
     subtract_mean : BOOLEAN,
     use_energy : {FALSE},
     sample_frequency : {16000, 48000},
     channel : -1 .. 2,
     frame_length : {MaxFftSize, FFT_SIZE_MAX + 1},
     frame_shift : {1},
     window : STFT_RECTANGULAR_WINDOW .. (STFT_POVEY_WINDOW + 1)]

DefaultConfig ==
    [size |-> SIZEOF_CONFIG, round_to_power_of_two |-> TRUE, snip_edges |-> TRUE,
     subtract_mean |-> FALSE, use_energy |-> FALSE, sample_frequency |-> 48000,
     channel |-> 0, frame_length |-> MaxFftSize, frame_shift |-> 1,
     window |-> STFT_RECTANGULAR_WINDOW]

\* The component after init: the private data is zeroed, the stream is
\* 48 kHz stereo s16, the blob is any of Configs
SetupInit ==
    /\ config \in Configs
    /\ heap = NoHeap
    /\ pointers = NoPtr
    /\ ret = 0
    /\ nsetup = 0
    /\ pvcd = ZeroCompData
    /\ sink = NoSink
    /\ produced = NoOut
    /\ hist = NoHist
    /\ buf = stft_process_init_buffer(0, 0)
    /\ mem = << >>
    /\ acc = {}
    /\ emph = [coef |-> 0, delay |-> 0, enable |-> 0]
    /\ fft = [fft_size |-> 0, fft_padded_size |-> 0, fft_hop_size |-> 0,
              fft_fill_start_idx |-> 0, half_fft_size |-> 0]
    /\ fft_buf = << >>
    /\ prev_data = << >>
    /\ cd = [frame_bytes |-> 4, channels |-> 2, source_channel |-> 0,
             max_frames |-> 0]
    /\ src = [x_size |-> SrcFrames * 2, rd |-> 0, avail |-> SrcFrames,
              rate |-> 48000]
    /\ state = [prev_data_size |-> 0, waiting_fill |-> FALSE,
                prev_samples_valid |-> FALSE, source_channel |-> 0,
                sample_rate |-> 0, window |-> "none"]
    /\ loc = NoLoc
    /\ pc = "idle"
    /\ lastOp = "none"
    /\ plancall = NoPlanCall
    /\ xform = NoXform

Setup_setup ==
    \E failAt \in 0 .. 7 : stft_process_setup(MaxFrames, src.rate, cd.channels, failAt)

Setup_free_buffers == stft_process_free_buffers

SetupNext ==
    \/ Setup_setup
    \/ Setup_free_buffers

SpecSetup == SetupInit /\ [][SetupNext]_vars

(* ------------------------------------------------------------------ *)
(* phase_vocoder.c: the module operations                              *)
(* ------------------------------------------------------------------ *)
\* phase_vocoder_set_config(): the bytes control blob is kept in cd->config
phase_vocoder_set_config ==
    /\ pc = "idle"
    /\ \E a \in {rzalloc([heap EXCEPT !.log = << >>, !.n = 0], "config", 0)} :
          /\ heap' = a.H
          /\ pvcd' = [pvcd EXCEPT !.config = a.p]
    /\ hist' = [hist EXCEPT !.configured = TRUE]
    /\ ret' = 0
    /\ lastOp' = "pv_set_config"
    /\ UNCHANGED <<sink, produced, src, pc, config, nsetup>>

\* phase_vocoder_setup(): the rings of the channels, the FFT buffers and
\* the two plans are allocated, or nothing is when the allocator fails
phase_vocoder_setup(c1, max_frames, sample_rate, channels, ok) ==
    IF ~ok
    THEN /\ ret' = -ENOMEM
         /\ pvcd' = c1
         /\ heap' = [heap EXCEPT !.log = << >>, !.n = 0]
         /\ UNCHANGED hist
    ELSE
    \E a1 \in {rzalloc([heap EXCEPT !.log = << >>, !.n = 0], "buffers", 0)} :
    \E a2 \in {rzalloc(a1.H, "fft_buf", 0)} :
    \E a3 \in {rzalloc(a2.H, "fft_out", 0)} :
    \E a4 \in {mod_fft_plan_new(a3.H, a2.p, a3.p,
                                round_up_to_pow2(config.frame_length), 32, 0)} :
    \E a5 \in {mod_fft_plan_new(a4.H, a3.p, a2.p,
                                round_up_to_pow2(config.frame_length), 32, 0)} :
       /\ ret' = 0
       /\ heap' = a5.H
       /\ pvcd' = [c1 EXCEPT
                      !.ptr = [buffers |-> a1.p, fft_buf |-> a2.p, fft_out |-> a3.p,
                               fft_plan |-> a4.p, ifft_plan |-> a5.p],
                      !.fft = [fft_size |-> config.frame_length,
                               fft_hop_size |-> config.frame_shift],
                      !.ibuf = [ch \in DOMAIN c1.ibuf |->
                                  IF ch < channels
                                  THEN stft_process_init_buffer(
                                           0, config.frame_length + max_frames)
                                  ELSE c1.ibuf[ch]],
                      !.phase_vocoder_func = "phase_vocoder_s32"]
       /\ hist' = [hist EXCEPT !.prepared = TRUE, !.acc = 0, !.calls = 0,
                               !.onehop = TRUE]

\* phase_vocoder_prepare(); dev_frames is dev->frames, ok the allocator's answer
phase_vocoder_prepare(num_of_sources, num_of_sinks, dev_frames, ok) ==
    /\ pc = "idle"
    /\ lastOp' = "pv_prepare"
    /\ nsetup' = nsetup + 1
    /\ IF num_of_sources # 1 \/ num_of_sinks # 1
       THEN /\ ret' = -EINVAL
            /\ UNCHANGED <<pvcd, heap, hist>>
       ELSE IF pvcd.config = NULL
       THEN /\ ret' = -EINVAL
            /\ UNCHANGED <<pvcd, heap, hist>>
       ELSE \E c1 \in {[pvcd EXCEPT !.max_frames = dev_frames + 2,
                                    !.frame_bytes = 4 * src.channels,
                                    !.channels = src.channels]} :
               phase_vocoder_setup(c1, c1.max_frames, src.rate, src.channels, ok)
    /\ UNCHANGED <<sink, produced, src, pc, config>>

\* phase_vocoder_process(): frames = MIN(frames of the source, free frames
\* of the sink), then the processing function
phase_vocoder_process ==
    /\ pc = "idle"
    /\ phase_vocoder_s32(MIN(src.avail, sink.free \div pvcd.frame_bytes))
    /\ lastOp' = "pv_process"
    /\ UNCHANGED <<heap, pc, config, nsetup>>

\* phase_vocoder_free_buffers(): the plans and the buffers of the state
\* are released, pointers that are NULL are skipped
phase_vocoder_free_buffers(H, P) ==
    rfree(rfree(rfree(mod_fft_plan_free(mod_fft_plan_free(H, P.ifft_plan),
                                        P.fft_plan), P.fft_out), P.fft_buf), P.buffers)

\* phase_vocoder_reset()
phase_vocoder_reset ==
    /\ pc = "idle"
    /\ \E H0 \in {[heap EXCEPT !.log = << >>, !.n = 0]} :
          heap' = phase_vocoder_free_buffers(H0, pvcd.ptr)
    /\ pvcd' = ZeroCompData
    /\ ret' = 0
    /\ lastOp' = "pv_reset"
    /\ UNCHANGED <<sink, produced, hist, src, pc, config, nsetup>>

\* phase_vocoder_free(): mod_free(mod, cd)
phase_vocoder_free ==
    /\ pc = "idle"
    /\ pc' = "freed"
    /\ ret' = 0
    /\ lastOp' = "pv_free"
    /\ UNCHANGED <<pvcd, heap, sink, produced, hist, src, config, nsetup>>

(* ------------------------------------------------------------------ *)
(* A phase vocoder from phase_vocoder_init on, between a source that  *)
(* is fed and a sink that is drained                                   *)
(* ------------------------------------------------------------------ *)
PvInit ==
    /\ \E fs \in 1 .. MaxFftSize : \E hop \in 1 .. fs :
          config = [DefaultConfig EXCEPT !.frame_length = fs, !.frame_shift = hop]
    /\ \E ch \in ChannelCounts :
          /\ src = [x_size |-> MaxFrames * ch, rd |-> 0, avail |-> 0,
                    rate |-> 48000, channels |-> ch]
          /\ \E wr \in {0, MaxFrames * ch - 1} :
                sink = [y_size |-> MaxFrames * ch, wr |-> wr,
                        free |-> MaxFrames * ch * 4,
                        data |-> [i \in 0 .. (MaxFrames * ch - 1) |-> 7]]
    /\ pvcd = ZeroCompData
    /\ produced = NoOut
    /\ hist = NoHist
    /\ heap = NoHeap
    /\ pointers = NoPtr
    /\ ret = 0
    /\ nsetup = 0
    /\ buf = stft_process_init_buffer(0, 0)
    /\ mem = << >>
    /\ acc = {}
    /\ emph = [coef |-> 0, delay |-> 0, enable |-> 0]
    /\ fft = [fft_size |-> 0, fft_padded_size |-> 0, fft_hop_size |-> 0,
              fft_fill_start_idx |-> 0, half_fft_size |-> 0]
    /\ fft_buf = << >>
    /\ prev_data = << >>
    /\ cd = [frame_bytes |-> 0, channels |-> 0, source_channel |-> 0,
             max_frames |-> 0]
    /\ state = [prev_data_size |-> 0, waiting_fill |-> FALSE,
                prev_samples_valid |-> FALSE, source_channel |-> 0,
                sample_rate |-> 0, window |-> "none"]
    /\ loc = NoLoc
    /\ pc = "idle"
    /\ lastOp = "none"
    /\ plancall = NoPlanCall
    /\ xform = NoXform

stftVars == <<buf, mem, acc, emph, fft, fft_buf, prev_data, cd, state, loc, pointers,
              fftVars>>

\* The host sends the configuration blob once, after the component is created
Pv_set_config ==
    /\ ~hist.configured
    /\ phase_vocoder_set_config
    /\ UNCHANGED stftVars

\* The pipeline prepares a component that is not prepared yet
Pv_prepare ==
    /\ nsetup < MaxSetups
    /\ pvcd.phase_vocoder_func = "NULL"
    /\ \E ok \in BOOLEAN : phase_vocoder_prepare(1, 1, MaxFrames, ok)
    /\ UNCHANGED stftVars

\* The scheduler runs the processing function of a prepared component
Pv_process ==
    /\ pvcd.phase_vocoder_func # "NULL"
    /\ hist.calls < MaxCalls
    /\ MIN(src.avail, sink.free \div pvcd.frame_bytes) <= pvcd.ibuf[0].s_free
    /\ phase_vocoder_process
    /\ UNCHANGED stftVars

Pv_reset ==
    /\ phase_vocoder_reset
    /\ UNCHANGED stftVars

Pv_free ==
    /\ phase_vocoder_free
    /\ UNCHANGED stftVars

\* The upstream component of a running pipeline makes k more frames available
Pv_source_feed ==
    /\ pc = "idle"
    /\ pvcd.phase_vocoder_func # "NULL"
    /\ \E k \in 1 .. MaxFrames :
          /\ src.avail + k <= MaxFrames
          /\ src' = [src EXCEPT !.avail = @ + k]
    /\ lastOp' = "source_feed"
    /\ UNCHANGED <<pvcd, sink, produced, hist, heap, config, ret, nsetup, pc>>
    /\ UNCHANGED stftVars

\* The downstream component takes what the sink holds; what it leaves in
\* the buffer is stale data
Pv_sink_drain ==
    /\ pc = "idle"
    /\ pvcd.phase_vocoder_func # "NULL"
    /\ sink.free < sink.y_size * 4
    /\ sink' = [sink EXCEPT !.free = sink.y_size * 4,
                            !.data = [i \in DOMAIN sink.data |-> 7]]
    /\ lastOp' = "sink_drain"
    /\ UNCHANGED <<pvcd, src, produced, hist, heap, config, ret, nsetup, pc>>
    /\ UNCHANGED stftVars

PvNext ==
    \/ Pv_set_config
    \/ Pv_prepare
    \/ Pv_process
    \/ Pv_reset
    \/ Pv_free
    \/ Pv_source_feed
    \/ Pv_sink_drain

SpecPv == PvInit /\ [][PvNext]_vars

(* ------------------------------------------------------------------ *)
(* The ring operations applied in any order to a ring in any           *)
(* well-formed state, each call within the s_free / s_avail bounds      *)
(* ------------------------------------------------------------------ *)
\* A ring of the size stft_process_setup gives it (fft_size + max_frames)
\* that holds the a most recent stream samples 1..a, the oldest at r.  The
\* pre-emphasis is off: no code of the component ever enables it.
RingFixture(fs, hop, mf, ch, r, a, rd) ==
    LET size == fs + mf
        b0 == stft_process_init_buffer(0, size)
    IN /\ buf = [b0 EXCEPT !.r_ptr = b0.addr + r,
                           !.w_ptr = b0.addr + ((r + a) % size),
                           !.s_avail = a,
                           !.s_free = size - a]
       /\ mem = [i \in 0 .. (size - 1) |->
                   IF ((i - r) % size) < a THEN ((i - r) % size) + 1 ELSE 0]
       /\ acc = {}
       /\ emph = [coef |-> 0, delay |-> 0, enable |-> 0]
       /\ fft = [fft_size |-> fs,
                 fft_padded_size |-> round_up_to_pow2(fs),
                 fft_hop_size |-> hop,
                 fft_fill_start_idx |-> 0,
                 half_fft_size |-> (round_up_to_pow2(fs) \div 2) + 1]
       /\ fft_buf = [i \in 0 .. (round_up_to_pow2(fs) - 1) |-> ZeroComplex]
       /\ prev_data = [j \in 0 .. (fs - hop - 1) |-> 0]
       /\ cd = [frame_bytes |-> 2 * ch, channels |-> ch, source_channel |-> 0,
                max_frames |-> mf]
       /\ src = [x_size |-> SrcFrames * ch, rd |-> rd * ch, avail |-> SrcFrames,
                 rate |-> 48000]
       /\ state = [prev_data_size |-> fs - hop, waiting_fill |-> TRUE,
                   prev_samples_valid |-> FALSE, source_channel |-> 0,
                   sample_rate |-> 0, window |-> "rectangular"]
       /\ loc = NoLoc
       /\ pc = "idle"
       /\ lastOp = "none"
       /\ heap = NoHeap
       /\ pointers = NoPtr
       /\ config = DefaultConfig
       /\ ret = 0
       /\ nsetup = 0
       /\ pvcd = ZeroCompData
       /\ sink = NoSink
       /\ produced = NoOut
       /\ hist = NoHist
       /\ plancall = NoPlanCall
       /\ xform = NoXform

RingInit ==
    \E fs \in 1 .. MaxFftSize, mf \in 1 .. MaxFrames, ch \in ChannelCounts,
       rd \in {0, SrcFrames - 1} :
      \E hop \in 1 .. fs, r \in 0 .. (fs + mf - 1), a \in 0 .. (fs + mf) :
        RingFixture(fs, hop, mf, ch, r, a, rd)

Ring_init_buffer ==
    /\ pc = "idle"
    /\ buf' = stft_process_init_buffer(buf.addr, fft.fft_size + cd.max_frames)
    /\ acc' = {}
    /\ lastOp' = "init"
    /\ UNCHANGED <<mem, emph, fft, fft_buf, prev_data, cd, src, state, loc, pc, lifeVars, pvVars, fftVars>>

Ring_source_s16 ==
    \/ \E frames \in 0 .. (MaxFftSize + MaxFrames) :
          /\ frames <= buf.s_free
          /\ stft_process_source_s16_call(frames)
    \/ stft_process_source_s16_loop
    \/ stft_process_source_s16_return

Ring_fill_prev_samples ==
    /\ pc = "idle"
    /\ state.prev_data_size <= buf.s_avail
    /\ LET e == stft_process_fill_prev_samples(buf, mem, prev_data, state.prev_data_size)
       IN /\ buf' = e.buf
          /\ prev_data' = e.prev_data
          /\ acc' = e.acc
    /\ lastOp' = "fill_prev"
    /\ UNCHANGED <<mem, emph, fft, fft_buf, cd, src, state, loc, pc, lifeVars, pvVars, fftVars>>

Ring_fill_fft_buffer ==
    /\ pc = "idle"
    /\ fft.fft_hop_size <= buf.s_avail
    /\ LET e == stft_process_fill_fft_buffer(buf, mem, fft, fft_buf, prev_data,
                                             state.prev_data_size)
       IN /\ buf' = e.buf
          /\ fft_buf' = e.fft_buf
          /\ prev_data' = e.prev_data
          /\ acc' = e.acc
    /\ lastOp' = "fill_fft"
    /\ UNCHANGED <<mem, emph, fft, cd, src, state, loc, pc, lifeVars, pvVars, fftVars>>

RingNext ==
    \/ Ring_init_buffer
    \/ Ring_source_s16
    \/ Ring_fill_prev_samples
    \/ Ring_fill_fft_buffer

SpecRing == RingInit /\ [][RingNext]_vars

(* ------------------------------------------------------------------ *)
(* The plan constructors applied to any request, with an allocator     *)
(* that may refuse any one of the allocations                          *)
(* ------------------------------------------------------------------ *)
\* The component that owns no stream yet
ComponentIdle ==
    /\ pointers = NoPtr
    /\ config = DefaultConfig
    /\ ret = 0
    /\ nsetup = 0
    /\ pvcd = ZeroCompData
    /\ sink = NoSink
    /\ produced = NoOut
    /\ hist = NoHist
    /\ buf = stft_process_init_buffer(0, 0)
    /\ mem = << >>
    /\ acc = {}
    /\ emph = [coef |-> 0, delay |-> 0, enable |-> 0]
    /\ fft = [fft_size |-> 0, fft_padded_size |-> 0, fft_hop_size |-> 0,
              fft_fill_start_idx |-> 0, half_fft_size |-> 0]
    /\ fft_buf = << >>
    /\ prev_data = << >>
    /\ cd = [frame_bytes |-> 0, channels |-> 0, source_channel |-> 0,
             max_frames |-> 0]
    /\ src = [x_size |-> 0, rd |-> 0, avail |-> 0, rate |-> 48000]
    /\ state = [prev_data_size |-> 0, waiting_fill |-> FALSE,
                prev_samples_valid |-> FALSE, source_channel |-> 0,
                sample_rate |-> 0, window |-> "none"]
    /\ loc = NoLoc
    /\ pc = "idle"
    /\ lastOp = "none"

\* The sizes asked for: every size up to 2^MaxLen + 1, three times the
\* powers of two, and the sizes around the limits
PlanSizes ==
    (0 .. (2 ^ MaxLen + 1)) \cup {3 * (2 ^ k) : k \in 0 .. MaxLen}
    \cup {FFT_SIZE_MAX, FFT_SIZE_MAX + 1, 2 * FFT_SIZE_MAX,
          3 * (FFT_SIZE_MAX \div 2), 3 * FFT_SIZE_MAX, 6 * FFT_SIZE_MAX}

\* The caller owns the two buffers (blocks 1 and 2) and passes them or NULL
CallerHeap == rzalloc(rzalloc(NoHeap, "inb", 0).H, "outb", 0).H

PlanInit ==
    /\ heap = CallerHeap
    /\ \E size \in PlanSizes, bits \in {16, 32, 24}, inb \in {NULL, 1},
          outb \in {NULL, 2}, failAt \in 0 .. 6 :
          plancall = [op |-> "none", size |-> size, bits |-> bits, inb |-> inb,
                      outb |-> outb, failAt |-> failAt, plan |-> NULL]
    /\ xform = NoXform
    /\ ComponentIdle

Plan_new ==
    /\ plancall.op = "none"
    /\ \E r \in {mod_fft_plan_new([heap EXCEPT !.log = << >>, !.n = 0],
                                   plancall.inb, plancall.outb, plancall.size,
                                   plancall.bits, plancall.failAt)} :
          /\ heap' = r.H
          /\ plancall' = [plancall EXCEPT !.op = "plan_new", !.plan = r.p]
    /\ UNCHANGED <<ringVars, pointers, config, ret, nsetup, pvVars, xform>>

\* Reading through the null plan->fft_plan[0] either traps or returns
\* after a read of whatever is at that address
Plan_multi_new ==
    /\ plancall.op = "none"
    /\ \E r \in {mod_fft_multi_plan_new([heap EXCEPT !.log = << >>, !.n = 0],
                                         plancall.inb, plancall.outb,
                                         plancall.size, plancall.bits,
                                         plancall.failAt)} :
          IF r.fault
          THEN \E outcome \in {"trap", "multi_plan_new"} :
                  /\ heap' = [r.H EXCEPT !.bad = TRUE]
                  /\ plancall' = [plancall EXCEPT !.op = outcome, !.plan = r.p]
          ELSE /\ heap' = r.H
               /\ plancall' = [plancall EXCEPT !.op = "multi_plan_new",
                                               !.plan = r.p]
    /\ UNCHANGED <<ringVars, pointers, config, ret, nsetup, pvVars, xform>>

Plan_free ==
    /\ plancall.op = "plan_new"
    /\ heap' = mod_fft_plan_free([heap EXCEPT !.log = << >>, !.n = 0], plancall.plan)
    /\ plancall' = [plancall EXCEPT !.op = "plan_free"]
    /\ UNCHANGED <<ringVars, pointers, config, ret, nsetup, pvVars, xform>>

Plan_multi_free ==
    /\ plancall.op = "multi_plan_new"
    /\ ~heap.bad
    /\ heap' = mod_fft_multi_plan_free([heap EXCEPT !.log = << >>, !.n = 0],
                                       plancall.plan)
    /\ plancall' = [plancall EXCEPT !.op = "multi_plan_free"]
    /\ UNCHANGED <<ringVars, pointers, config, ret, nsetup, pvVars, xform>>

PlanNext ==
    \/ Plan_new
    \/ Plan_multi_new
    \/ Plan_free
    \/ Plan_multi_free

SpecPlan == PlanInit /\ [][PlanNext]_vars

(* ------------------------------------------------------------------ *)
(* The transforms applied to test signals: a forward transform from    *)
(* buffer a to buffer b and the inverse one back, as the two plans of   *)
(* the phase vocoder are set up, or one composite transform            *)
(* ------------------------------------------------------------------ *)
\* One sample (re, im) at index pos, zero elsewhere
Impulse(size, pos, re, im) ==
    [n \in 0 .. (size - 1) |->
       IF n = pos THEN [real |-> re, imag |-> im] ELSE ZeroComplex]

\* The sign of the cosine and of the sine at m / N of a turn
sq_cos(m, N) == IF 4 * m <= N \/ 4 * m >= 3 * N THEN 1 ELSE -1

sq_sin(m, N) == IF 2 * m < N THEN 1 ELSE -1

\* A complex square wave of k periods: re and im with the signs of the
\* cosine and the sine
Square(size, k, re, im) ==
    [n \in 0 .. (size - 1) |->
       [real |-> sq_cos((k * n) % size, size) * re,
        imag |-> sq_sin((k * n) % size, size) * im]]

\* Real-only and complex test signals of Q1.31 samples: impulses at the
\* first, the second and the last index, a constant and a one-period
\* square wave
TestSignals(size) ==
    {Impulse(size, pos, re, im) :
        pos \in {0, 1, size - 1} \cap (0 .. (size - 1)),
        re \in {536870912, INT32_MAX, INT32_MIN}, im \in {0, 536870912, INT32_MIN}}
    \cup {Square(size, k, re, im) :
        k \in {0, 1} \cap (0 .. (size - 1)),
        re \in {536870912, INT32_MAX}, im \in {0, INT32_MAX}}

\* What a buffer holds before it is first written: zeros (rzalloc) or the
\* result of an earlier frame
StaleBuffers(size) ==
    {[n \in 0 .. (size - 1) |-> ZeroComplex],
     [n \in 0 .. (size - 1) |-> [real |-> 1000 + n, imag |-> -1000 - n]]}

XformInit ==
    /\ \E len \in 0 .. MaxXformLen, kind \in {"fft", "multi"} :
       \E size \in {IF kind = "fft" THEN 2 ^ len ELSE 3 * (2 ^ len)} :
       \E x \in TestSignals(size), stale \in StaleBuffers(size) :
       \E p1 \in {IF kind = "fft"
                   THEN mod_fft_plan_new(CallerHeap, 1, 2, size, 32, 0)
                   ELSE [H |-> mod_fft_multi_plan_new(CallerHeap, 1, 2, size,
                                                      32, 0).H,
                         p |-> mod_fft_multi_plan_new(CallerHeap, 1, 2, size,
                                                      32, 0).p]} :
       \E p2 \in {IF kind = "fft"
                   THEN mod_fft_plan_new(p1.H, 2, 1, size, 32, 0)
                   ELSE [H |-> p1.H, p |-> NULL]} :
          /\ heap = p2.H
          /\ xform = [pc |-> "ready", kind |-> kind, size |-> size,
                      plan |-> p1.p, iplan |-> p2.p,
                      a |-> x, b |-> stale, x0 |-> x,
                      inp |-> x, pre |-> stale, perm |-> stale,
                      ub |-> FALSE, cleared |-> FALSE]
    /\ plancall = NoPlanCall
    /\ ComponentIdle

\* The caller clears the output buffer of the next transform, as
\* stft_process_stft_process does before fft_execute_32
Xform_bzero ==
    /\ xform.kind = "fft"
    /\ xform.pc \in {"ready", "fft_done"}
    /\ ~xform.cleared
    /\ xform' = IF xform.pc = "ready"
                THEN [xform EXCEPT !.b = bzero(xform.b, xform.size),
                                   !.cleared = TRUE]
                ELSE [xform EXCEPT !.a = bzero(xform.a, xform.size),
                                   !.cleared = TRUE]
    /\ UNCHANGED <<ringVars, lifeVars, pvVars, plancall>>

\* fft_execute_32(fft_plan, false): a to b
Xform_fft ==
    /\ xform.kind = "fft"
    /\ xform.pc = "ready"
    /\ \E r \in {fft_execute_32(heap, xform.plan, xform.a, xform.b, FALSE)} :
          xform' = [xform EXCEPT !.pc = "fft_done", !.a = r.inb, !.b = r.outb,
                                 !.inp = xform.a, !.pre = xform.b,
                                 !.perm = r.perm, !.ub = r.ub,
                                 !.cleared = FALSE]
    /\ UNCHANGED <<ringVars, lifeVars, pvVars, plancall>>

\* fft_execute_32(ifft_plan, true): b back to a
Xform_ifft ==
    /\ xform.kind = "fft"
    /\ xform.pc = "fft_done"
    /\ \E r \in {fft_execute_32(heap, xform.iplan, xform.b, xform.a, TRUE)} :
          xform' = [xform EXCEPT !.pc = "ifft_done", !.b = r.inb, !.a = r.outb,
                                 !.inp = r.inb, !.pre = xform.a,
                                 !.perm = r.perm, !.ub = xform.ub \/ r.ub,
                                 !.cleared = FALSE]
    /\ UNCHANGED <<ringVars, lifeVars, pvVars, plancall>>

\* fft_multi_execute_32(plan, ifft): a to b
Xform_multi ==
    /\ xform.kind = "multi"
    /\ xform.pc = "ready"
    /\ \E ifft \in BOOLEAN :
       \E r \in {fft_multi_execute_32(heap, xform.plan, xform.a, xform.b, ifft)} :
          xform' = [xform EXCEPT !.pc = IF ifft THEN "multi_ifft_done"
                                               ELSE "multi_fft_done",
                                 !.a = r.inb, !.b = r.outb,
                                 !.inp = xform.a, !.pre = xform.b,
                                 !.ub = r.ub]
    /\ UNCHANGED <<ringVars, lifeVars, pvVars, plancall>>

XformNext ==
    \/ Xform_bzero
    \/ Xform_fft
    \/ Xform_ifft
    \/ Xform_multi

SpecXform == XformInit /\ [][XformNext]_vars

(* ------------------------------------------------------------------ *)
(* stft_process_common.c: stft_process_stft_process and its caller     *)
(* stft_process_s16, in the 16 bit build (STFT_PROCESS_FFT_BITS == 16)  *)
(* ------------------------------------------------------------------ *)
STFT_PROCESS_NORMALIZE_MAX_SHIFT == 10

\* norm_int32(): the left shifts that bring a positive value to bit 30;
\* 31 for zero
RECURSIVE norm_int32(_)
norm_int32(val) ==
    IF val = 0 THEN 31
    ELSE IF val >= 1073741824 THEN 0
    ELSE 1 + norm_int32(val * 2)

\* win_rectangular_16b(): every coefficient is one in Q1.15
win_rectangular_16b(length) == [j \in 0 .. (length - 1) |-> 32767]

\* The value an int16_t keeps of x
wrap16(x) == ((x + 32768) % 65536) - 32768

\* stft_process_normalize_fft_buffer(): the block scale left shift
stft_process_normalize_fft_buffer(f, fb) ==
    LET i == f.fft_fill_start_idx
        absx(j) == IF fb[i + j].real < 0 THEN -fb[i + j].real ELSE fb[i + j].real
        smax == CHOOSE s \in {0} \cup {absx(j) : j \in 0 .. (f.fft_size - 1)} :
                   \A j \in 0 .. (f.fft_size - 1) : absx(j) <= s
        shift == norm_int32(smax * 32768) - 1
    IN MIN(MAX(shift, 0), STFT_PROCESS_NORMALIZE_MAX_SHIFT)

\* stft_process_apply_window(), the branch of the 16 bit build
stft_process_apply_window(f, fb, window, input_shift) ==
    LET i == f.fft_fill_start_idx
        s == 14 - input_shift
    IN [k \in DOMAIN fb |->
          IF k >= i /\ k < i + f.fft_size
          THEN [fb[k] EXCEPT
                  !.real = wrap16((((fb[k].real * window[k - i]) \div (2 ^ s)) + 1) \div 2)]
          ELSE fb[k]]

\* The scratch after the feature path has run on it: power_spectra
\* overlays fft_buf
scratch_used(fb, g) == [k \in DOMAIN fb |-> [real |-> g, imag |-> g]]

\* Mutant: the tail for the next hop is read after the window was applied
Mut_stft_hop_tail_after_window(st, mem0, f, s, window, g) ==
    Then(stft_process_fill_fft_buffer(st.buf, mem0, f,
             bzero(st.fft_buf, f.fft_padded_size), st.prev_data,
             s.prev_data_size),
      LAMBDA e :
        Then(stft_process_apply_window(f, e.fft_buf, window,
                 stft_process_normalize_fft_buffer(f, e.fft_buf)),
          LAMBDA w :
            [buf |-> e.buf,
             fft_buf |-> scratch_used(w, g),
             prev_data |-> [j \in DOMAIN e.prev_data |->
                              w[f.fft_fill_start_idx + f.fft_hop_size + j].real],
             cc_count |-> st.cc_count + s.dct_num_out,
             frames |-> Append(st.frames,
                          [j \in 0 .. (f.fft_size - 1) |->
                             e.fft_buf[f.fft_fill_start_idx + j].real])]))

\* Mutant: cc_count += state->dct.num_out is forgotten
Mut_stft_hop_no_count(st, mem0, f, s, window, g) ==
    Then(stft_process_fill_fft_buffer(st.buf, mem0, f,
             bzero(st.fft_buf, f.fft_padded_size), st.prev_data,
             s.prev_data_size),
      LAMBDA e :
        Then(stft_process_apply_window(f, e.fft_buf, window,
                 stft_process_normalize_fft_buffer(f, e.fft_buf)),
          LAMBDA w :
            [buf |-> e.buf,
             fft_buf |-> scratch_used(w, g),
             prev_data |-> e.prev_data,
             cc_count |-> st.cc_count,
             frames |-> Append(st.frames,
                          [j \in 0 .. (f.fft_size - 1) |->
                             e.fft_buf[f.fft_fill_start_idx + j].real])]))

\* The body of for (i = 0; i < m; i++) of stft_process_stft_process: the
\* scratch is cleared, the frame assembled, normalized and windowed, then
\* transformed and turned into cepstral coefficients in the scratch;
\* st = [buf, fft_buf, prev_data, cc_count, frames], where frames lists
\* the real parts of every frame as stft_process_fill_fft_buffer left it
stft_hop(st, mem0, f, s, window, g) ==
    Then(stft_process_fill_fft_buffer(st.buf, mem0, f,
             bzero(st.fft_buf, f.fft_padded_size), st.prev_data,
             s.prev_data_size),
      LAMBDA e :
        Then(stft_process_apply_window(f, e.fft_buf, window,
                 stft_process_normalize_fft_buffer(f, e.fft_buf)),
          LAMBDA w :
            [buf |-> e.buf,
             fft_buf |-> scratch_used(w, g),
             prev_data |-> e.prev_data,
             cc_count |-> st.cc_count + s.dct_num_out,
             frames |-> Append(st.frames,
                          [j \in 0 .. (f.fft_size - 1) |->
                             e.fft_buf[f.fft_fill_start_idx + j].real])]))

\* for (i = 0; i < m; i++) of stft_process_stft_process
RECURSIVE stft_hop_loop(_, _, _, _, _, _, _, _)
stft_hop_loop(st, i, m, mem0, f, s, window, g) ==
    IF i < m
    THEN Then(stft_hop(st, mem0, f, s, window, g),
           LAMBDA t : stft_hop_loop(t, i + 1, m, mem0, f, s, window, g))
    ELSE st

\* Mutant: the carried samples are not taken out of the ring before the
\* first frame
Mut_stft_process_no_prev_fill(b, m0, f, fb, prev, s, window, g) ==
    IF s.waiting_fill /\ b.s_avail < f.fft_size
    THEN [buf |-> b, fft_buf |-> fb, prev_data |-> prev, state |-> s,
          frames |-> << >>, ret |-> 0]
    ELSE Then(stft_hop_loop([buf |-> b, fft_buf |-> fb,
                             prev_data |-> prev, cc_count |-> 0,
                             frames |-> << >>],
                            0, b.s_avail \div f.fft_hop_size,
                            m0, f, s, window, g),
           LAMBDA e :
             [buf |-> e.buf, fft_buf |-> e.fft_buf, prev_data |-> e.prev_data,
              state |-> [s EXCEPT !.waiting_fill = FALSE,
                                  !.prev_samples_valid = TRUE],
              frames |-> e.frames, ret |-> e.cc_count])

\* Mutant: the warm-up goes on while s_avail <= fft_size
Mut_stft_process_warmup_one_more(b, m0, f, fb, prev, s, window, g) ==
    IF s.waiting_fill /\ b.s_avail <= f.fft_size
    THEN [buf |-> b, fft_buf |-> fb, prev_data |-> prev, state |-> s,
          frames |-> << >>, ret |-> 0]
    ELSE Then(IF ~s.prev_samples_valid
              THEN stft_process_fill_prev_samples(b, m0, prev, s.prev_data_size)
              ELSE [buf |-> b, prev_data |-> prev, acc |-> {}],
           LAMBDA p :
             Then(stft_hop_loop([buf |-> p.buf, fft_buf |-> fb,
                                 prev_data |-> p.prev_data, cc_count |-> 0,
                                 frames |-> << >>],
                                0, p.buf.s_avail \div f.fft_hop_size,
                                m0, f, s, window, g),
               LAMBDA e :
                 [buf |-> e.buf, fft_buf |-> e.fft_buf, prev_data |-> e.prev_data,
                  state |-> [s EXCEPT !.waiting_fill = FALSE,
                                      !.prev_samples_valid = TRUE],
                  frames |-> e.frames, ret |-> e.cc_count]))

\* stft_process_stft_process(); the result is the state it leaves and
\* the count it returns
stft_process_stft_process_run(b, m0, f, fb, prev, s, window, g) ==
    IF s.waiting_fill /\ b.s_avail < f.fft_size
    THEN [buf |-> b, fft_buf |-> fb, prev_data |-> prev, state |-> s,
          frames |-> << >>, ret |-> 0]
    ELSE Then(IF ~s.prev_samples_valid
              THEN stft_process_fill_prev_samples(b, m0, prev, s.prev_data_size)
              ELSE [buf |-> b, prev_data |-> prev, acc |-> {}],
           LAMBDA p :
             Then(stft_hop_loop([buf |-> p.buf, fft_buf |-> fb,
                                 prev_data |-> p.prev_data, cc_count |-> 0,
                                 frames |-> << >>],
                                0, p.buf.s_avail \div f.fft_hop_size,
                                m0, f, s, window, g),
               LAMBDA e :
                 [buf |-> e.buf, fft_buf |-> e.fft_buf, prev_data |-> e.prev_data,
                  state |-> [s EXCEPT !.waiting_fill = FALSE,
                                      !.prev_samples_valid = TRUE],
                  frames |-> e.frames, ret |-> e.cc_count]))

\* stft_process_s16() after stft_process_source_s16 has returned, with
\* success or with an error: stft_process_stft_process runs and its
\* count is logged.  hist.n counts the frames assembled since setup.
stft_process_stft_process ==
    /\ pc = "idle"
    /\ lastOp \in {"source", "source_err"}
    /\ \E g \in {0, 32767} :
         LET e == stft_process_stft_process_run(buf, mem, fft, fft_buf, prev_data,
                      state, win_rectangular_16b(fft.fft_size), g)
         IN /\ buf' = e.buf
            /\ fft_buf' = e.fft_buf
            /\ prev_data' = e.prev_data
            /\ state' = e.state
            /\ ret' = e.ret
            /\ hist' = [n |-> hist.n + Len(e.frames), frames |-> e.frames,
                        calls |-> hist.calls + 1]
    /\ acc' = {}
    /\ lastOp' = "stft_process"
    /\ UNCHANGED <<mem, emph, fft, cd, src, loc, pc, heap, pointers, config, nsetup,
                   pvcd, sink, produced, fftVars>>

\* stft_process_s16(): the source is read first; its status is not looked at
stft_process_s16_source ==
    \/ /\ lastOp \notin {"source", "source_err"}
       /\ hist.calls < MaxCalls
       /\ \E frames \in 0 .. cd.max_frames : stft_process_source_s16_call(frames)
    \/ stft_process_source_s16_loop
    \/ stft_process_source_s16_return

(* ------------------------------------------------------------------ *)
(* A stream of stft_process_s16 calls.  The stream's sample k has the   *)
(* value k + 1; c samples have left the ring, a are in it.              *)
(* ------------------------------------------------------------------ *)
MaxHops == 2

\* The sample a ring cell holds when c + a samples have been written:
\* the newest one that landed on the cell, zero when none did
CellSample(p, size, written) ==
    LET k == (written - 1) - (((written - 1) - p) % size)
    IN IF k >= 0 THEN k + 1 ELSE 0

\* Mutant: the ring has room for one frame only
Mut_buffer_size_no_max_frames(fft_size, max_frames) == fft_size

\* buffer_size of stft_process_setup
buffer_size(fft_size, max_frames) == fft_size + max_frames

\* The state after stft_process_source_s16 has returned in an
\* stft_process_s16 call, n frames having been assembled since setup
StftFixture(fs, hop, mf, ch, n, a, avail, num_out) ==
    LET size == buffer_size(fs, mf)
        b0 == stft_process_init_buffer(0, size)
        c == IF n = 0 THEN 0 ELSE (fs - hop) + n * hop
    IN /\ buf = [b0 EXCEPT !.r_ptr = b0.addr + (c % size),
                           !.w_ptr = b0.addr + ((c + a) % size),
                           !.s_avail = a,
                           !.s_free = size - a]
       /\ mem = [p \in 0 .. (size - 1) |-> CellSample(p, size, c + a)]
       /\ acc = {}
       /\ emph = [coef |-> 0, delay |-> 0, enable |-> 0]
       /\ fft = [fft_size |-> fs,
                 fft_padded_size |-> round_up_to_pow2(fs),
                 fft_hop_size |-> hop,
                 fft_fill_start_idx |-> 0,
                 half_fft_size |-> (round_up_to_pow2(fs) \div 2) + 1]
       /\ fft_buf = [i \in 0 .. (round_up_to_pow2(fs) - 1) |-> ZeroComplex]
       /\ prev_data = [j \in 0 .. (fs - hop - 1) |->
                         IF n = 0 THEN 0 ELSE c - (fs - hop) + j + 1]
       /\ cd = [frame_bytes |-> 2 * ch, channels |-> ch, source_channel |-> 0,
                max_frames |-> mf]
       /\ src = [x_size |-> SrcFrames * ch, rd |-> 0, avail |-> avail,
                 rate |-> 48000]
       /\ state = [prev_data_size |-> fs - hop, waiting_fill |-> (n = 0),
                   prev_samples_valid |-> (n # 0), source_channel |-> 0,
                   sample_rate |-> 48000, window |-> "rectangular",
                   dct_num_out |-> num_out]
       /\ loc = NoLoc
       /\ pc = "idle"
       /\ lastOp = "source"
       /\ heap = NoHeap
       /\ pointers = NoPtr
       /\ config = DefaultConfig
       /\ ret = 0
       /\ nsetup = 0
       /\ pvcd = ZeroCompData
       /\ sink = NoSink
       /\ produced = NoOut
       /\ hist = [n |-> n, frames |-> << >>, calls |-> 0]
       /\ plancall = NoPlanCall
       /\ xform = NoXform

\* Before the first frame the ring holds fewer than fft_size samples
\* when a call begins and at most max_frames more after the source was
\* read; later it holds fewer than a hop when a call begins
StftInit ==
    \E fs \in 1 .. MaxFftSize, mf \in 1 .. MaxFrames, ch \in ChannelCounts,
       n \in 0 .. MaxHops, avail \in {0, SrcFrames}, num_out \in {0, 13} :
      \E hop \in 1 .. fs :
        \E a \in 0 .. ((IF n = 0 THEN fs ELSE hop) - 1 + mf) :
          StftFixture(fs, hop, mf, ch, n, a, avail, num_out)

StftNext ==
    \/ stft_process_s16_source
    \/ stft_process_stft_process

SpecStft == StftInit /\ [][StftNext]_vars

(* ------------------------------------------------------------------ *)
(* phase_vocoder_common.c: stft_apply_fft_symmetry, applied to the     *)
(* spectrum of every frame length                                      *)
(* ------------------------------------------------------------------ *)
MaxSymSize == 8

MaxSpectra == 8

\* for (i = fft->half_fft_size; i < fft->fft_size; i++);
\* st = [out, acc, ub]: the spectrum, the indices read or written, and
\* whether -imag left the range of int32_t
RECURSIVE symmetry_loop(_, _, _, _)
symmetry_loop(f, j, i, st) ==
    IF i < f.fft_size
    THEN LET k == j - i
             src_bin == IF k \in DOMAIN st.out THEN st.out[k] ELSE ZeroComplex
         IN symmetry_loop(f, j, i + 1,
               [out |-> IF i \in DOMAIN st.out
                        THEN [st.out EXCEPT
                                ![i] = [real |-> src_bin.real,
                                        imag |-> IF src_bin.imag = INT32_MIN
                                                 THEN INT32_MIN ELSE -src_bin.imag]]
                        ELSE st.out,
                acc |-> st.acc \cup {i, k},
                ub |-> st.ub \/ src_bin.imag = INT32_MIN])
    ELSE st

\* Mutant: j = 2 * fft->half_fft_size - 1, the mirror is one bin off
Mut_symmetry_mirror_off_by_one(f, fft_out) ==
    symmetry_loop(f, 2 * f.half_fft_size - 1, f.half_fft_size,
                  [out |-> fft_out, acc |-> {}, ub |-> FALSE])

\* stft_apply_fft_symmetry(); result [out, acc, ub]
stft_apply_fft_symmetry(f, fft_out) ==
    symmetry_loop(f, 2 * f.half_fft_size - 2, f.half_fft_size,
                  [out |-> fft_out, acc |-> {}, ub |-> FALSE])

\* A spectrum of n bins that are all different, none of them real
Spectrum(n, a) ==
    [i \in 0 .. (n - 1) |-> [real |-> a * 1000 + 3 * i, imag |-> -(a * 100 + 5 * i + 1)]]

\* The sizes as stft_process_setup derives them from the frame length, and
\* fft_out with one of the spectra of fft_padded_size bins
SymInit ==
    /\ \E fs \in 1 .. MaxSymSize, a \in 1 .. MaxSpectra :
          /\ fft = [fft_size |-> fs,
                    fft_padded_size |-> round_up_to_pow2(fs),
                    fft_hop_size |-> fs,
                    fft_fill_start_idx |-> 0,
                    half_fft_size |-> (round_up_to_pow2(fs) \div 2) + 1]
          /\ xform = [pc |-> "spectrum", kind |-> "symmetry",
                      out |-> Spectrum(round_up_to_pow2(fs), a),
                      pre |-> Spectrum(round_up_to_pow2(fs), a),
                      acc |-> {}, ub |-> FALSE]
    /\ heap = NoHeap
    /\ plancall = NoPlanCall
    /\ pointers = NoPtr
    /\ config = DefaultConfig
    /\ ret = 0
    /\ nsetup = 0
    /\ pvcd = ZeroCompData
    /\ sink = NoSink
    /\ produced = NoOut
    /\ hist = NoHist
    /\ buf = stft_process_init_buffer(0, 0)
    /\ mem = << >>
    /\ acc = {}
    /\ emph = [coef |-> 0, delay |-> 0, enable |-> 0]
    /\ fft_buf = << >>
    /\ prev_data = << >>
    /\ cd = [frame_bytes |-> 0, channels |-> 0, source_channel |-> 0,
             max_frames |-> 0]
    /\ src = [x_size |-> 0, rd |-> 0, avail |-> 0, rate |-> 48000]
    /\ state = [prev_data_size |-> 0, waiting_fill |-> FALSE,
                prev_samples_valid |-> FALSE, source_channel |-> 0,
                sample_rate |-> 0, window |-> "none"]
    /\ loc = NoLoc
    /\ pc = "idle"
    /\ lastOp = "none"

Sym_apply_fft_symmetry ==
    /\ xform.pc = "spectrum"
    /\ \E r \in {stft_apply_fft_symmetry(fft, xform.out)} :
          xform' = [xform EXCEPT !.pc = "symmetry_done", !.out = r.out,
                                 !.acc = r.acc, !.ub = r.ub]
    /\ UNCHANGED <<ringVars, lifeVars, pvVars, plancall>>

SymNext == Sym_apply_fft_symmetry

SpecSym == SymInit /\ [][SymNext]_vars

(* ------------------------------------------------------------------ *)
(* phase_vocoder_common.c: stft_do_fft_ifft step by step.  xform.ch is  *)
(* the channel of the loop, xform.at the step that comes next (0 is the *)
(* head of the loop body, stft_prepare_fft), xform.log the steps done.  *)
(* ------------------------------------------------------------------ *)
\* The calls of stft_do_fft, of the three conversions and of stft_do_ifft
\* in the order of the code
ChainStages ==
    <<"fill", "window", "fft", "polar", "complex", "symmetry", "ifft",
      "window", "overlap_add">>

\* The shared buffers a step reads or writes
stage_buffers(stage) ==
    CASE stage = "fill" -> {"fft_buf"}
      [] stage = "window" -> {"fft_buf"}
      [] stage = "fft" -> {"fft_buf", "fft_out"}
      [] stage = "polar" -> {"fft_out", "fft_polar"}
      [] stage = "complex" -> {"fft_polar", "fft_out"}
      [] stage = "symmetry" -> {"fft_out"}
      [] stage = "ifft" -> {"fft_out", "fft_buf"}
      [] stage = "overlap_add" -> {"fft_buf"}
      [] OTHER -> {}

\* Mutant: the loop goes on to the next channel after the forward transform
Mut_chain_next_leaves_after_fft(ch, at, num_fft) ==
    IF at = 0
    THEN IF num_fft # 0 THEN [ch |-> ch, at |-> 1] ELSE [ch |-> ch + 1, at |-> 0]
    ELSE IF at < 3
    THEN [ch |-> ch, at |-> at + 1]
    ELSE [ch |-> ch + 1, at |-> 0]

\* Where the control goes after the step at position at of channel ch
chain_next(ch, at, num_fft) ==
    IF at = 0
    THEN IF num_fft # 0 THEN [ch |-> ch, at |-> 1] ELSE [ch |-> ch + 1, at |-> 0]
    ELSE IF at < Len(ChainStages)
    THEN [ch |-> ch, at |-> at + 1]
    ELSE [ch |-> ch + 1, at |-> 0]

\* What the step at position at of channel ch does to the component data
chain_effect(c, ch, at) ==
    IF at = 0 THEN c
    ELSE IF ChainStages[at] = "fill" THEN phase_vocoder_fill_fft_buffer(c, ch)
    ELSE IF at = Len(ChainStages) THEN [c EXCEPT !.fft_done = TRUE]
    ELSE c

\* One step of stft_do_fft_ifft
Chain_step ==
    /\ xform.pc = "chain"
    /\ IF xform.ch < pvcd.channels
       THEN \E nx \in {chain_next(xform.ch, xform.at,
                                  stft_prepare_fft(pvcd, xform.ch))} :
               /\ pvcd' = chain_effect(pvcd, xform.ch, xform.at)
               /\ xform' = [xform EXCEPT
                     !.ch = nx.ch, !.at = nx.at,
                     !.log = Append(@, [ch |-> xform.ch,
                                        stage |-> IF xform.at = 0 THEN "prepare"
                                                  ELSE ChainStages[xform.at]])]
       ELSE /\ xform' = [xform EXCEPT !.pc = "chain_done"]
            /\ pvcd' = pvcd
    /\ UNCHANGED <<ringVars, lifeVars, sink, produced, hist, plancall>>

\* Component data of a prepared phase vocoder in a processing call, after
\* the source was read: every channel has less than a hop, a hop or two
ChainInit ==
    /\ \E n \in ChannelCounts, hop \in 1 .. MaxFftSize :
       \E av \in [0 .. 1 -> {hop - 1, hop, 2 * hop}] :
          pvcd = [ZeroCompData EXCEPT
                    !.channels = n,
                    !.max_frames = MaxFrames,
                    !.fft = [fft_size |-> MaxFftSize, fft_hop_size |-> hop],
                    !.ibuf = [ch \in 0 .. 1 |->
                                IF ch < n
                                THEN [stft_process_init_buffer(0, 3 * MaxFftSize)
                                        EXCEPT !.s_avail = av[ch],
                                               !.s_free = 3 * MaxFftSize - av[ch],
                                               !.w_ptr = av[ch]]
                                ELSE stft_process_init_buffer(0, 0)]]
    /\ xform = [pc |-> "chain", kind |-> "chain", ch |-> 0, at |-> 0, log |-> << >>,
                ibuf0 |-> pvcd.ibuf]
    /\ heap = NoHeap
    /\ plancall = NoPlanCall
    /\ pointers = NoPtr
    /\ config = DefaultConfig
    /\ ret = 0
    /\ nsetup = 0
    /\ sink = NoSink
    /\ produced = NoOut
    /\ hist = NoHist
    /\ buf = stft_process_init_buffer(0, 0)
    /\ mem = << >>
    /\ acc = {}
    /\ emph = [coef |-> 0, delay |-> 0, enable |-> 0]
    /\ fft = [fft_size |-> 0, fft_padded_size |-> 0, fft_hop_size |-> 0,
              fft_fill_start_idx |-> 0, half_fft_size |-> 0]
    /\ fft_buf = << >>
    /\ prev_data = << >>
    /\ cd = [frame_bytes |-> 0, channels |-> 0, source_channel |-> 0,
             max_frames |-> 0]
    /\ src = [x_size |-> 0, rd |-> 0, avail |-> 0, rate |-> 48000]
    /\ state = [prev_data_size |-> 0, waiting_fill |-> FALSE,
                prev_samples_valid |-> FALSE, source_channel |-> 0,
                sample_rate |-> 0, window |-> "none"]
    /\ loc = NoLoc
    /\ pc = "idle"
    /\ lastOp = "none"

ChainNext == Chain_step

SpecChain == ChainInit /\ [][ChainNext]_vars

(* ------------------------------------------------------------------ *)
(* fft_32.c: the butterflies of fft_execute_32, by their indices alone  *)
(* ------------------------------------------------------------------ *)
\* Mutant: bottom = top + m
Mut_butterfly_bottom_plus_m(depth, k, j) ==
    [j |-> j, index |-> (FFT_SIZE_MAX \div (2 ^ depth)) * j,
     top |-> k + j, bottom |-> k + j + 2 ^ depth]

\* index = i * j; top = k + j; bottom = top + n;
\* with m = 1 << depth, n = m >> 1, i = FFT_SIZE_MAX >> depth
butterfly(depth, k, j) ==
    [j |-> j, index |-> (FFT_SIZE_MAX \div (2 ^ depth)) * j,
     top |-> k + j, bottom |-> k + j + (2 ^ depth) \div 2]

\* for (j = lo; j < hi; ++j): the butterflies of one transform of size m
\* and the number of stores to each element of outb.  st = [flies, writes];
\* the iterations run in the order of the loop, the first half of the range
\* before the second.
RECURSIVE butterfly_j_loop(_, _, _, _, _)
butterfly_j_loop(st, depth, k, lo, hi) ==
    IF hi <= lo THEN st
    ELSE IF hi = lo + 1
    THEN Then(butterfly(depth, k, lo), LAMBDA b :
            [flies |-> Append(st.flies, b),
             writes |-> [e \in DOMAIN st.writes |->
                           IF e = b.top \/ e = b.bottom
                           THEN st.writes[e] + 1 ELSE st.writes[e]]])
    ELSE Then(butterfly_j_loop(st, depth, k, lo, (lo + hi) \div 2),
              LAMBDA s : butterfly_j_loop(s, depth, k, (lo + hi) \div 2, hi))

\* The plans mod_fft_plan_new makes: every power of two up to FFT_SIZE_MAX
ButterflyInit ==
    /\ \E size \in {s \in 1 .. FFT_SIZE_MAX : s = round_up_to_pow2(s)} :
          xform = [pc |-> "step2", kind |-> "butterfly", size |-> size,
                   len |-> exponent_loop(size, [lim |-> 1, len |-> 0]).len,
                   depth |-> 1, k |-> 0, flies |-> << >>,
                   writes |-> [e \in 0 .. (size - 1) |-> 0], depths |-> << >>]
    /\ heap = NoHeap
    /\ plancall = NoPlanCall
    /\ ComponentIdle

\* One pass of for (k = 0; k < plan->size; k += m) at the current depth;
\* writes collects the stores of the whole stage.
Butterfly_k_step ==
    /\ xform.pc = "step2"
    /\ xform.depth <= xform.len
    /\ xform.k < xform.size
    /\ \E r \in {butterfly_j_loop([flies |-> << >>, writes |-> xform.writes],
                                  xform.depth, xform.k, 0,
                                  (2 ^ xform.depth) \div 2)} :
          xform' = [xform EXCEPT !.flies = r.flies, !.writes = r.writes,
                                 !.k = @ + 2 ^ xform.depth,
                                 !.depths = IF xform.k = 0
                                            THEN Append(@, xform.depth) ELSE @]
    /\ UNCHANGED <<ringVars, lifeVars, pvVars, plancall>>

\* for (depth = 1; depth <= plan->len; ++depth): the k loop is over, the
\* next depth starts or step 2 ends
Butterfly_depth_step ==
    /\ xform.pc = "step2"
    /\ \/ /\ xform.depth > xform.len
          /\ xform' = [xform EXCEPT !.pc = "step2_done"]
       \/ /\ xform.depth <= xform.len
          /\ xform.k >= xform.size
          /\ xform' = [xform EXCEPT !.depth = @ + 1, !.k = 0,
                                    !.flies = << >>,
                                    !.writes = [e \in DOMAIN @ |-> 0]]
    /\ UNCHANGED <<ringVars, lifeVars, pvVars, plancall>>

ButterflyNext ==
    \/ Butterfly_k_step
    \/ Butterfly_depth_step

SpecButterfly == ButterflyInit /\ [][ButterflyNext]_vars

(* ------------------------------------------------------------------ *)
(* fft_common.c: the copies and stores of fft_multi_execute_32 with     *)
(* three sub-transforms, by their indices alone                        *)
(* ------------------------------------------------------------------ *)
\* for (j = 0; j < plan->num_ffts; j++) plan->tmp_i32[j][i] = plan->inb32[k++];
\* st = [k, copies]; copies[j] is the copy to tmp_i32[j] made in this pass
RECURSIVE copy_j_loop(_, _, _, _)
copy_j_loop(st, plan, i, j) ==
    IF j < plan.num_ffts
    THEN copy_j_loop([k |-> st.k + 1,
                      copies |-> [st.copies EXCEPT ![j] =
                                     [from |-> st.k, sub |-> j, pos |-> i]]],
                     plan, i, j + 1)
    ELSE st

\* Mutant: the three outputs of dft3_32 are stored next to each other
Mut_dft3_stores_interleaved(plan, i) == <<3 * i, 3 * i + 1, 3 * i + 2>>

\* j = plan->fft_size; k = 2 * plan->fft_size;
\* outb32[i] = y[0]; outb32[i + j] = y[1]; outb32[i + k] = y[2];
dft3_stores(plan, i) == <<i, i + plan.fft_size, i + 2 * plan.fft_size>>

\* The counters of accesses after one more access to each of a, b and c
count_stores(writes, a, b, c) ==
    Then([writes EXCEPT ![a] = @ + 1], LAMBDA w1 :
    Then([w1 EXCEPT ![b] = @ + 1], LAMBDA w2 : [w2 EXCEPT ![c] = @ + 1]))

\* The composite plans mod_fft_multi_plan_new makes with three
\* sub-transforms: three times a power of two up to FFT_SIZE_MAX
MultiIndexInit ==
    /\ \E size \in {3 * s : s \in {t \in 1 .. FFT_SIZE_MAX : t = round_up_to_pow2(t)}},
          ifft \in BOOLEAN :
          xform = [pc |-> "copy", kind |-> "multi_index", ifft |-> ifft,
                   plan |-> [num_ffts |-> multi_num_ffts(size),
                             total_size |-> size,
                             fft_size |-> size \div multi_num_ffts(size)],
                   i |-> 0, k |-> 0,
                   copies |-> << >>,
                   reads |-> [e \in 0 .. (size - 1) |-> 0],
                   stores |-> << >>,
                   writes |-> [e \in 0 .. (size - 1) |-> 0],
                   rescaled |-> FALSE]
    /\ heap = NoHeap
    /\ plancall = NoPlanCall
    /\ ComponentIdle

\* One pass of for (i = 0; i < plan->fft_size; i++) of the copy of the input
MultiIndex_copy ==
    /\ xform.pc = "copy"
    /\ xform.i < xform.plan.fft_size
    /\ \E r \in {copy_j_loop([k |-> xform.k,
                              copies |-> [j \in 0 .. (xform.plan.num_ffts - 1)
                                            |-> [from |-> 0, sub |-> 0, pos |-> 0]]],
                             xform.plan, xform.i, 0)} :
          xform' = [xform EXCEPT
                       !.k = r.k, !.i = @ + 1, !.copies = r.copies,
                       !.reads = count_stores(@, r.copies[0].from,
                                              r.copies[1].from, r.copies[2].from)]
    /\ UNCHANGED <<ringVars, lifeVars, pvVars, plancall>>

\* The sub-transforms and the twiddle factors work on tmp_o32[] only; the
\* loop of dft3_32 starts with i = 0
MultiIndex_transforms ==
    /\ xform.pc = "copy"
    /\ xform.i >= xform.plan.fft_size
    /\ xform' = [xform EXCEPT !.pc = "dft3", !.i = 0]
    /\ UNCHANGED <<ringVars, lifeVars, pvVars, plancall>>

\* One pass of for (i = 0; i < plan->fft_size; i++) of the DFT of size 3
MultiIndex_dft3 ==
    /\ xform.pc = "dft3"
    /\ xform.i < xform.plan.fft_size
    /\ \E s \in {dft3_stores(xform.plan, xform.i)} :
          xform' = [xform EXCEPT !.i = @ + 1, !.stores = s,
                                 !.writes = count_stores(@, s[1], s[2], s[3])]
    /\ UNCHANGED <<ringVars, lifeVars, pvVars, plancall>>

\* The loop of dft3_32 is over; if (ifft) the last loop rescales each of
\* outb32[0 .. total_size-1] in place, which rescaled records
MultiIndex_return ==
    /\ xform.pc = "dft3"
    /\ xform.i >= xform.plan.fft_size
    /\ xform' = [xform EXCEPT !.pc = "multi_done", !.rescaled = xform.ifft]
    /\ UNCHANGED <<ringVars, lifeVars, pvVars, plancall>>

MultiIndexNext ==
    \/ MultiIndex_copy
    \/ MultiIndex_transforms
    \/ MultiIndex_dft3
    \/ MultiIndex_return

SpecMultiIndex == MultiIndexInit /\ [][MultiIndexNext]_vars

(* ------------------------------------------------------------------ *)
(* Claims about the ring buffer                                        *)
(* ------------------------------------------------------------------ *)
InRing(p) == buf.addr <= p /\ p < buf.end_addr

\* C1: for any sequence of init, source write, prev-samples read and
\* FFT-buffer fill on one ring, each issued within the s_free / s_avail
\* bounds, s_avail + s_free = s_length holds after every operation.
C1_CountersSumToLength == buf.s_avail + buf.s_free = buf.s_length

\* A hop was read out of a ring that still holds samples and has room.
C1_Witness ==
    /\ lastOp = "fill_fft"
    /\ buf.s_avail > 0
    /\ buf.s_free >= fft.fft_hop_size
    /\ buf.s_avail + buf.s_free = buf.s_length

\* C2: after every ring operation r_ptr and w_ptr lie in [addr, end_addr);
\* a cursor that reaches end_addr is wrapped before it is stored or used
\* again, and no copy step touches a sample at or beyond end_addr.
C2_CursorsInsideRing ==
    /\ InRing(buf.r_ptr)
    /\ InRing(buf.w_ptr)
    /\ (pc = "src_loop" => InRing(loc.w))
    /\ \A a \in acc : InRing(a)

\* A hop read took the last sample before end_addr and the read cursor
\* wrapped to the base address.
C2_Witness ==
    /\ lastOp = "fill_fft"
    /\ (buf.end_addr - 1) \in acc
    /\ buf.r_ptr = buf.addr
    /\ buf.s_avail > 0

\* C3: counters match cursor movement: when stft_process_source_s16 has
\* copied the F frames it was called with, its loop is over and the count
\* it adds to s_avail and takes from s_free is F; and the counters agree
\* with the cursors, (w_ptr - r_ptr) mod s_length = s_avail mod s_length.
C3_CountersMatchCursors ==
    /\ (buf.w_ptr - buf.r_ptr) % buf.s_length = buf.s_avail % buf.s_length
    /\ (pc = "src_loop" /\ loc.copied * cd.frame_bytes = loc.bytes)
          => (loc.frames_left = 0 /\ loc.frames * cd.frame_bytes = loc.bytes)

(* ------------------------------------------------------------------ *)
(* Claims about setup and release                                      *)
(* ------------------------------------------------------------------ *)
Range(s) == {s[i] : i \in DOMAIN s}

\* The last call was a setup that got as far as building the window: both
\* plans were created in it
WindowStepReached ==
    /\ lastOp = "setup"
    /\ pointers.ifft_plan # NULL
    /\ <<"alloc", pointers.ifft_plan>> \in Range(heap.log)

\* C7: releasing is idempotent: no call of the buffer/plan release, on a
\* stream that was never set up, after a failed setup or for the second
\* time, releases a block twice or reads a released block; and after the
\* release no block the stream points to (sample buffers, FFT buffers, the
\* plans and their bit reverse tables) is still allocated.
C7_FreeIdempotent ==
    /\ ~heap.bad
    /\ lastOp = "free_buffers" =>
          \A f \in DOMAIN pointers :
             pointers[f] # NULL =>
                /\ ~heap.blocks[pointers[f]].live
                /\ heap.blocks[pointers[f]].bit_reverse_idx # NULL =>
                      ~heap.blocks[heap.blocks[pointers[f]].bit_reverse_idx].live

\* C8: a setup that returns a negative status has released every block it
\* allocated in that call, and its releases follow the reverse of the
\* order of acquisition, each block once.
C8_FailedSetupHoldsNothing ==
    (lastOp = "setup" /\ ret < 0) =>
       /\ \A i \in DOMAIN heap.log :
             heap.log[i][1] = "alloc" => ~heap.blocks[heap.log[i][2]].live
       /\ \A i, j \in DOMAIN heap.log :
             (i < j /\ heap.log[i][1] = "free" /\ heap.log[j][1] = "free")
                => heap.log[i][2] > heap.log[j][2]

\* C9: a setup whose configuration has a size field other than the size
\* of the structure, a sample_frequency other than the stream's rate, or
\* a channel index at or above the stream's channel count returns a
\* negative status and has asked the allocator for nothing.
C9_ConfigMismatchRejected ==
    (/\ lastOp = "setup"
     /\ \/ config.size # SIZEOF_CONFIG
        \/ config.sample_frequency # src.rate
        \/ config.channel >= cd.channels)
       => (ret < 0 /\ heap.n = 0 /\ heap.log = << >>)

\* A setup was refused for the channel index alone (channel = channels)
C9_Witness ==
    /\ lastOp = "setup"
    /\ config.size = SIZEOF_CONFIG
    /\ ~config.subtract_mean
    /\ config.sample_frequency = src.rate
    /\ config.channel = cd.channels
    /\ ret = -EINVAL
    /\ heap.n = 0

\* C10: a setup that reaches the window step succeeds and has built the
\* window table exactly when the configured window is one of the five
\* enumerated types; it fails there only for a value outside the
\* enumeration.
C10_EveryWindowTypeBuilds ==
    WindowStepReached =>
       ((ret = 0 /\ state.window # "none")
           <=> config.window \in STFT_RECTANGULAR_WINDOW .. STFT_POVEY_WINDOW)

(* ------------------------------------------------------------------ *)
(* Claims about the phase vocoder                                      *)
(* ------------------------------------------------------------------ *)
\* The samples the last processing call put into the sink
ProducedSamples == produced.frames * pvcd.channels

\* All of them are zero and each was stored by the zero output loop
SilenceProduced ==
    /\ produced.stores = ProducedSamples
    /\ \A i \in 0 .. (ProducedSamples - 1) :
          sink.data[(produced.y0 + i) % sink.y_size] = 0

\* C4: with one hop of input per processing call since prepare, the calls
\* made while the accumulated input is below frame_size transform nothing
\* and write zeros only, and the first transform is done by the call at
\* which the accumulated input reaches frame_size.
C4_FirstTransformAtFullFrame ==
    (lastOp = "pv_process" /\ hist.onehop) =>
       /\ hist.acc < pvcd.fft.fft_size => (~pvcd.fft_done /\ SilenceProduced)
       /\ hist.acc >= pvcd.fft.fft_size => pvcd.fft_done

\* C5: a processing call that ends with no hop transformed yet returns 0,
\* has set exactly frames x channels samples of the sink to zero, from the
\* write position on and wrapping at the end of the sink buffer, and has
\* committed exactly frames x channels x 4 bytes.
C5_WarmupWritesSilence ==
    (lastOp = "pv_process" /\ ~pvcd.fft_done) =>
       /\ ret = 0
       /\ SilenceProduced
       /\ produced.bytes = ProducedSamples * 4
       /\ sink.wr = (produced.y0 + ProducedSamples) % sink.y_size

\* A warm-up call wrote at least one frame of zeros across the end of the
\* sink buffer
C5_Witness ==
    /\ lastOp = "pv_process"
    /\ ~pvcd.fft_done
    /\ produced.frames >= 1
    /\ produced.y0 + ProducedSamples > sink.y_size
    /\ sink.data[0] = 0
    /\ produced.bytes = ProducedSamples * 4

\* C6: a reset of a configured and prepared component keeps the
\* configuration blob and the allocations of the state, leaves the flags
\* and counters at their values of setup time, and a prepare of a
\* configured component is never refused for a missing configuration.
C6_ResetKeepsConfigured ==
    /\ ~heap.bad
    /\ (lastOp = "pv_reset" /\ hist.configured) => pvcd.config # NULL
    /\ (lastOp = "pv_reset" /\ hist.prepared) =>
          \A f \in DOMAIN pvcd.ptr :
             pvcd.ptr[f] # NULL /\ heap.blocks[pvcd.ptr[f]].live
    /\ lastOp = "pv_reset" =>
          (~pvcd.fft_done /\ \A ch \in DOMAIN pvcd.ibuf : pvcd.ibuf[ch].s_avail = 0)
    /\ (lastOp = "pv_prepare" /\ hist.configured) => ret # -EINVAL

(* ------------------------------------------------------------------ *)
(* Claims about the plans                                              *)
(* ------------------------------------------------------------------ *)
IsPow2(n) == \E k \in 0 .. 30 : n = 2 ^ k

Log2(n) == CHOOSE k \in 0 .. 30 : n = 2 ^ k

\* The allocator served every request of the call
AllocatorServed == plancall.failAt = 0 \/ plancall.failAt > heap.n

\* C11: mod_fft_plan_new returns NULL whenever the size is not a power of
\* two, exceeds FFT_SIZE_MAX, or a buffer pointer is NULL; for a power of
\* two up to FFT_SIZE_MAX, buffers that are not NULL and a word width of
\* 16 or 32 it returns a plan whose size is the requested size and whose
\* len is log2(size), provided the allocator serves the call.
C11_PlanNewValidatesRequest ==
    plancall.op = "plan_new" =>
      /\ (~IsPow2(plancall.size) \/ plancall.size > FFT_SIZE_MAX
             \/ plancall.inb = NULL \/ plancall.outb = NULL)
            => plancall.plan = NULL
      /\ (IsPow2(plancall.size) /\ plancall.size <= FFT_SIZE_MAX
             /\ plancall.inb # NULL /\ plancall.outb # NULL
             /\ plancall.bits \in {16, 32} /\ AllocatorServed)
            => /\ plancall.plan # NULL
               /\ heap.blocks[plancall.plan].live
               /\ heap.blocks[plancall.plan].size = plancall.size
               /\ heap.blocks[plancall.plan].len = Log2(plancall.size)

\* A plan of the largest size was built, with an allocator set to refuse a
\* request the call never made
C11_Witness ==
    /\ plancall.op = "plan_new"
    /\ plancall.size = FFT_SIZE_MAX
    /\ plancall.failAt > 2
    /\ plancall.plan # NULL
    /\ heap.blocks[plancall.plan].len = 10

\* The sub-plans of a multi plan: fft_plan[0 .. num_ffts-1]
SubPlans(p) == {heap.blocks[p].fft_plan[i] : i \in 0 .. (heap.blocks[p].num_ffts - 1)}

\* C12: mod_fft_multi_plan_new returns NULL for every size that is neither
\* a power of two nor three times one, for a sub-transform size above
\* FFT_SIZE_MAX and for a NULL buffer; for a power of two it builds one
\* sub-plan of that size, for 3 * 2^k three sub-plans of size 2^k that
\* share one bit-reversal table.
C12_MultiPlanNewValidatesRequest ==
    plancall.op \in {"multi_plan_new", "trap"} =>
      /\ plancall.op = "multi_plan_new"
      /\ ~heap.bad
      /\ ((~IsPow2(plancall.size)
              /\ ~(plancall.size % 3 = 0 /\ IsPow2(plancall.size \div 3)))
             \/ (IsPow2(plancall.size) /\ plancall.size > FFT_SIZE_MAX)
             \/ (plancall.size % 3 = 0 /\ plancall.size \div 3 > FFT_SIZE_MAX)
             \/ plancall.inb = NULL \/ plancall.outb = NULL)
            => plancall.plan = NULL
      /\ (IsPow2(plancall.size) /\ plancall.size <= FFT_SIZE_MAX
             /\ plancall.inb # NULL /\ plancall.outb # NULL
             /\ plancall.bits \in {16, 32} /\ AllocatorServed)
            => /\ plancall.plan # NULL
               /\ heap.blocks[plancall.plan].num_ffts = 1
               /\ \A q \in SubPlans(plancall.plan) :
                     /\ q # NULL
                     /\ heap.blocks[q].size = plancall.size
      /\ (plancall.size % 3 = 0 /\ IsPow2(plancall.size \div 3)
             /\ plancall.size \div 3 <= FFT_SIZE_MAX
             /\ plancall.inb # NULL /\ plancall.outb # NULL
             /\ plancall.bits \in {16, 32} /\ AllocatorServed)
            => /\ plancall.plan # NULL
               /\ heap.blocks[plancall.plan].num_ffts = 3
               /\ \A q \in SubPlans(plancall.plan) :
                     /\ q # NULL
                     /\ heap.blocks[q].size = plancall.size \div 3
                     /\ heap.blocks[q].bit_reverse_idx =
                            heap.blocks[plancall.plan].bit_reverse_idx
               /\ Cardinality(SubPlans(plancall.plan)) = 3

\* The same statement for the word width 32 alone
MultiPlanNew32ValidatesRequest ==
    plancall.bits = 32 => C12_MultiPlanNewValidatesRequest

\* A composite plan of three sub-plans was built at word width 32
MultiPlanNew32Reached ==
    /\ plancall.op = "multi_plan_new"
    /\ plancall.bits = 32
    /\ plancall.size = 3 * (FFT_SIZE_MAX \div 2)
    /\ plancall.plan # NULL
    /\ heap.blocks[plancall.plan].num_ffts = 3

\* The len-bit reversal of i
RECURSIVE BitReverse(_, _)
BitReverse(i, len) ==
    IF len = 0 THEN 0
    ELSE (i % 2) * (2 ^ (len - 1)) + BitReverse(i \div 2, len - 1)

\* The table of the plan the last mod_fft_plan_new returned
PlanTable == heap.blocks[heap.blocks[plancall.plan].bit_reverse_idx].data

\* C13: for every N = 2^len up to FFT_SIZE_MAX the table mod_fft_plan_new
\* builds has bit_reverse_idx[i] equal to the len-bit reversal of i for all
\* i, entry 0 being 0; N = 8 gives 0 4 2 6 1 5 3 7 and N = 16 gives
\* 0 8 4 12 2 10 6 14 1 9 5 13 3 11 7 15.
C13_TableIsBitReversal ==
    (plancall.op = "plan_new" /\ plancall.plan # NULL) =>
      /\ DOMAIN PlanTable = 0 .. (plancall.size - 1)
      /\ \A i \in 0 .. (plancall.size - 1) :
            PlanTable[i] = BitReverse(i, heap.blocks[plancall.plan].len)
      /\ PlanTable[0] = 0
      /\ plancall.size = 8 =>
            \A i \in 0 .. 7 : PlanTable[i] = <<0, 4, 2, 6, 1, 5, 3, 7>>[i + 1]
      /\ plancall.size = 16 =>
            \A i \in 0 .. 15 :
               PlanTable[i] = <<0, 8, 4, 12, 2, 10, 6, 14,
                                1, 9, 5, 13, 3, 11, 7, 15>>[i + 1]

\* The table of a plan of size 16 was built
C13_Witness ==
    /\ plancall.op = "plan_new"
    /\ plancall.plan # NULL
    /\ plancall.size = 16
    /\ PlanTable[1] = 8
    /\ PlanTable[15] = 15

(* ------------------------------------------------------------------ *)
(* Claims about the transforms                                         *)
(* ------------------------------------------------------------------ *)
\* The plan the last fft_execute_32 call ran with and its table
LastPlan ==
    heap.blocks[IF xform.pc = "ifft_done" THEN xform.iplan ELSE xform.plan]

LastTable == heap.blocks[LastPlan.bit_reverse_idx].data

FftCalled == xform.kind = "fft" /\ xform.pc \in {"fft_done", "ifft_done"}

\* C17: after the permutation step of fft_execute_32 every index i of
\* 0 .. size-1, index 0 included, has output[bit_reverse_idx[i]] equal to
\* input[i] shifted right by log2(size), whatever the output buffer held
\* before the call.
C17_PermutationCopiesEveryIndex ==
    FftCalled =>
       \A i \in 0 .. (LastPlan.size - 1) :
          xform.perm[LastTable[i]] = icomplex32_shift(xform.inp[i], -LastPlan.len)

\* C19: for every Q1.31 complex input and every supported size no butterfly
\* addition or subtraction of fft_execute_32 leaves the range of int32_t.
C19_ButterfliesStayInRange ==
    FftCalled => ~xform.ub

\* |a - b| <= tol for two int32_t values
Near(a, b, tol) ==
    /\ ~sub32_overflows(a, b)
    /\ ~sub32_overflows(b, a)
    /\ a - b <= tol
    /\ b - a <= tol

\* The error allowed to a round trip of size N: each of the 2 * log2(N)
\* butterfly stages and the two shifts round, and the shift back by
\* log2(N) multiplies what the inverse transform rounded by N
RoundTripTolerance(size) == 2 * size * size

\* C14: for every supported power-of-two size the forward transform
\* followed by the inverse transform of its output returns the original
\* input to within a bounded fixed-point error, for real-only and for
\* complex inputs.
C14_RoundTripReturnsInput ==
    (xform.kind = "fft" /\ xform.pc = "ifft_done" /\ ~xform.ub) =>
       \A i \in 0 .. (xform.size - 1) :
          /\ Near(xform.a[i].real, xform.x0[i].real, RoundTripTolerance(xform.size))
          /\ Near(xform.a[i].imag, xform.x0[i].imag, RoundTripTolerance(xform.size))

SOFM_DFT3_MAX_ERROR_ABS == 1040

\* The spectrum of ref_ifft_multi_24_32.h: real X[0] = 536870912, every
\* other component zero
ifft_in_24_q31 == Impulse(24, 0, 536870912, 0)

\* C15: the composite inverse transform of size 24 applied to the spectrum
\* with real X[0] = 536870912 and every other component zero gives 24
\* outputs with real part 536870912 and imaginary part 0, each to within
\* the absolute error limit 1040 of the unit test.
C15_Inverse24MatchesReference ==
    (/\ xform.kind = "multi"
     /\ xform.pc = "multi_ifft_done"
     /\ xform.size = 24
     /\ xform.x0 = ifft_in_24_q31) =>
       \A i \in 0 .. 23 :
          /\ Near(xform.b[i].real, 536870912, SOFM_DFT3_MAX_ERROR_ABS)
          /\ Near(xform.b[i].imag, 0, SOFM_DFT3_MAX_ERROR_ABS)

(* ------------------------------------------------------------------ *)
(* Claims about the readers and the writer of the ring                 *)
(* ------------------------------------------------------------------ *)
\* The j-th sample of the stream still held by the ring, the oldest at
\* r_ptr, whether or not the wrap point lies in between
RingSample(j) ==
    Load(mem, buf.addr + ((buf.r_ptr - buf.addr + j) % buf.s_length))

\* A step of stft_process_fill_fft_buffer
FillFftStep == pc = "idle" /\ lastOp' = "fill_fft" /\ vars' # vars

\* What the step leaves: the carried samples, then the hop of ring
\* samples, zero imaginary parts, the hop consumed
FillFftResult ==
    /\ \A j \in 0 .. (state.prev_data_size - 1) :
          fft_buf'[fft.fft_fill_start_idx + j].real = prev_data[j]
    /\ \A j \in 0 .. (fft.fft_hop_size - 1) :
          fft_buf'[fft.fft_fill_start_idx + state.prev_data_size + j].real
             = RingSample(j)
    /\ \A i \in DOMAIN fft_buf : fft_buf'[i].imag = 0
    /\ buf'.s_avail = buf.s_avail - fft.fft_hop_size
    /\ buf'.s_free = buf.s_free + fft.fft_hop_size
    /\ buf'.r_ptr = buf.addr
                    + ((buf.r_ptr - buf.addr + fft.fft_hop_size) % buf.s_length)

\* C20: after stft_process_fill_fft_buffer the real parts of the FFT input
\* from fft_fill_start_idx on hold the prev_data_size carried samples in
\* order and then exactly fft_hop_size samples of the ring in stream
\* order, also when the read crosses the wrap point; the imaginary parts
\* are left zero and exactly fft_hop_size samples were consumed.
C20_FillFftBufferLayout == [][FillFftStep => FillFftResult]_vars

\* A fill whose read crossed the wrap point of the ring, with carried
\* samples in front of a hop of at least two samples of the stream
C20_Witness ==
    /\ lastOp = "fill_fft"
    /\ state.prev_data_size >= 1
    /\ fft.fft_hop_size >= 2
    /\ buf.r_ptr > buf.addr
    /\ buf.r_ptr - buf.addr < fft.fft_hop_size
    /\ \A j \in 0 .. (fft.fft_hop_size - 1) :
          fft_buf[fft.fft_fill_start_idx + state.prev_data_size + j].real # 0

\* One iteration of the tiling loop of stft_process_source_s16
SourceLoopStep ==
    /\ pc = "src_loop"
    /\ loc.frames_left # 0
    /\ pc' = "src_loop"
    /\ vars' # vars

\* C18: stft_process_source_s16 terminates for every call with
\* 1 <= frames <= s_free: each iteration of its tiling loop copies
\* min(source samples before wrap, ring samples before wrap, frames
\* remaining) frames and decrements the remaining-frames counter that
\* controls the loop, which so reaches zero.
C18_SourceLoopCountsDown ==
    [][SourceLoopStep =>
          /\ loc'.copied > loc.copied
          /\ loc'.frames_left = loc.frames_left - (loc'.copied - loc.copied)]_vars

(* ------------------------------------------------------------------ *)
(* Claims about stft_process_stft_process                              *)
(* ------------------------------------------------------------------ *)
\* The last stft_process_stft_process call assembled at least one frame
FrameAssembled == lastOp = "stft_process" /\ hist.frames # << >>

\* The frame the last call assembled last, as the fill left it
LastFrame == hist.frames[Len(hist.frames)]

\* C21: after stft_process_fill_fft_buffer prev_data holds the last
\* prev_data_size = fft_size - fft_hop_size real samples of the frame just
\* assembled, frame[hop_size .. frame_size - 1], as they were before the
\* normalization, the window and the transform changed the scratch buffer.
C21_TailCapturedBeforeWindow ==
    FrameAssembled =>
       \A j \in 0 .. (state.prev_data_size - 1) :
          prev_data[j] = LastFrame[fft.fft_hop_size + j]

\* A call that assembled two frames with a tail of at least two samples,
\* after which the scratch buffer no longer holds the frame
C21_Witness ==
    /\ FrameAssembled
    /\ Len(hist.frames) >= 2
    /\ state.prev_data_size >= 2
    /\ prev_data[0] # 0
    /\ \E j \in 0 .. (fft.fft_size - 1) :
          fft_buf[fft.fft_fill_start_idx + j].real # LastFrame[j]

\* The stream's samples the k-th frame of the last call has to hold: the
\* frame is the n-th since setup, n counted from 0
FrameIndex(k) == hist.n - Len(hist.frames) + (k - 1)

C28_EveryHopProcessed ==
    (lastOp = "stft_process" /\ ~state.waiting_fill) =>
       /\ buf.s_avail < fft.fft_hop_size
       /\ ret = Len(hist.frames) * state.dct_num_out

\* A call that processed two hops and returned the count of both
C28_Witness ==
    /\ lastOp = "stft_process"
    /\ ~state.waiting_fill
    /\ Len(hist.frames) = 2
    /\ ret = 2 * state.dct_num_out
    /\ ret > 0

\* A step of stft_process_stft_process
StftProcessStep ==
    pc = "idle" /\ lastOp \in {"source", "source_err"} /\ lastOp' = "stft_process"

\* What a call does to the warm-up
WarmupResult ==
    /\ (state.waiting_fill /\ buf.s_avail < fft.fft_size) =>
          /\ state'.waiting_fill
          /\ ret' = 0
          /\ hist'.frames = << >>
          /\ buf'.r_ptr = buf.r_ptr
          /\ buf'.s_avail = buf.s_avail
          /\ prev_data' = prev_data
          /\ state'.prev_samples_valid = state.prev_samples_valid
    /\ (state.waiting_fill /\ buf.s_avail >= fft.fft_size) =>
          /\ ~state'.waiting_fill
          /\ Len(hist'.frames) >= 1

\* C29: warm-up ends exactly once.  waiting_fill goes from true to false
\* only in the first stft_process_stft_process call that finds
\* s_avail >= fft_size, and no step sets it again; every earlier call
\* returns 0 and leaves r_ptr, s_avail, prev_data and prev_samples_valid
\* alone; the call that ends the warm-up processes at least one hop.
C29_WarmupEndsOnce ==
    [][/\ StftProcessStep => WarmupResult
       /\ (state.waiting_fill /\ ~state'.waiting_fill) =>
             (StftProcessStep /\ buf.s_avail >= fft.fft_size)
       /\ ~state.waiting_fill => ~state'.waiting_fill]_vars

\* The call that ended the warm-up with exactly fft_size samples in the
\* ring: the first frame of the stream was assembled
C29_Witness ==
    /\ lastOp = "stft_process"
    /\ ~state.waiting_fill
    /\ hist.n = 1
    /\ Len(hist.frames) = 1
    /\ buf.s_avail = 0
    /\ state.prev_data_size >= 1

(* ------------------------------------------------------------------ *)
(* Claims about the spectrum of the phase vocoder                      *)
(* ------------------------------------------------------------------ *)
\* stft_apply_fft_symmetry has run on a spectrum of fft_size bins whose
\* half_fft_size is fft_size / 2 + 1
SymmetryApplied ==
    /\ xform.pc = "symmetry_done"
    /\ fft.half_fft_size = (fft.fft_size \div 2) + 1

\* C23: after stft_apply_fft_symmetry on a spectrum of N bins with
\* half_fft_size = N / 2 + 1 the bins 0 .. N/2 are as before and the
\* spectrum is Hermitian, out[i].real = out[N-i].real and
\* out[i].imag = -out[N-i].imag for every i in N/2+1 .. N-1, and no index
\* outside 0 .. N-1 was read or written.
C23_UpperHalfMirrorsLowerHalf ==
    SymmetryApplied =>
       LET N == fft.fft_size
       IN /\ \A i \in 0 .. (N \div 2) : xform.out[i] = xform.pre[i]
          /\ \A i \in ((N \div 2) + 1) .. (N - 1) :
                /\ xform.out[i].real = xform.out[N - i].real
                /\ xform.out[i].imag = -xform.out[N - i].imag
          /\ xform.acc \subseteq 0 .. (N - 1)
          /\ ~xform.ub

\* The spectrum of eight bins after the call: its three upper bins were
\* rewritten
C23_Witness ==
    /\ SymmetryApplied
    /\ fft.fft_size = 8
    /\ \A i \in 5 .. 7 : xform.out[i] # xform.pre[i]
    /\ 7 \in xform.acc /\ 1 \in xform.acc

\* The steps of xform.log that read or write a shared buffer
ScratchSteps == {q \in 1 .. Len(xform.log) : stage_buffers(xform.log[q].stage) # {}}

\* The steps channel c has done so far, in order
StepsOf(c) ==
    LET idx == {q \in ScratchSteps : xform.log[q].ch = c}
        RECURSIVE seq(_)
        seq(S) == IF S = {} THEN << >>
                  ELSE LET m == CHOOSE x \in S : \A y \in S : y <= x
                       IN Append(seq(S \ {m}), xform.log[m].stage)
    IN seq(idx)

\* C22: within one call the channels are handled strictly one after the
\* other.  The steps of a channel are a prefix of the chain fill, window,
\* FFT, polar, complex, symmetry, IFFT, window, overlap-add, and a step
\* of a later channel touches a shared buffer only after the overlap-add
\* of every earlier channel that touched one.
C22_ChannelsOneAfterAnother ==
    xform.kind = "chain" =>
       /\ \A c \in 0 .. (pvcd.channels - 1) :
             /\ Len(StepsOf(c)) <= Len(ChainStages)
             /\ StepsOf(c) = SubSeq(ChainStages, 1, Len(StepsOf(c)))
       /\ \A p \in ScratchSteps, q \in ScratchSteps :
             (p < q /\ xform.log[p].ch # xform.log[q].ch) =>
                /\ xform.log[p].ch < xform.log[q].ch
                /\ \E d \in p .. (q - 1) :
                      xform.log[d] = [ch |-> xform.log[p].ch, stage |-> "overlap_add"]
       /\ xform.pc = "chain_done" =>
             pvcd = stft_do_fft_ifft([pvcd EXCEPT !.ibuf = xform.ibuf0,
                                                  !.fft_done = FALSE], 0)

\* A call in which both channels had a hop: the second channel has begun
\* its chain after the first one finished
C22_Witness ==
    /\ xform.kind = "chain"
    /\ pvcd.channels = 2
    /\ Len(StepsOf(0)) = Len(ChainStages)
    /\ Len(StepsOf(1)) >= 3

(* ------------------------------------------------------------------ *)
(* Claims about the failure paths of mod_fft_multi_plan_new            *)
(* ------------------------------------------------------------------ *)
\* How often the call released block b
TimesFreed(b) ==
    Cardinality({i \in 1 .. Len(heap.log) : heap.log[i] = <<"free", b>>})

\* The blocks the call allocated: those after the two of the caller
AllocatedByCall == 3 .. Len(heap.blocks)

\* mod_fft_multi_plan_new returned NULL
MultiPlanNewFailed ==
    /\ plancall.op = "multi_plan_new"
    /\ plancall.plan = NULL

\* C25: on every failure path of mod_fft_multi_plan_new each allocation the
\* call made (the plan, the bit-reversal table, the scratch buffer and the
\* sub-plans already created) is released exactly once, and the input and
\* output buffers of the caller are never released.
C25_FailureReleasesOwnAllocations ==
    MultiPlanNewFailed =>
      /\ \A b \in AllocatedByCall : TimesFreed(b) = 1
      /\ TimesFreed(1) = 0
      /\ TimesFreed(2) = 0

(* ------------------------------------------------------------------ *)
(* Claims about the butterflies of fft_execute_32                      *)
(* ------------------------------------------------------------------ *)
\* The k loop of the current depth has ended
StageEnded ==
    /\ xform.kind = "butterfly"
    /\ xform.pc = "step2"
    /\ xform.depth <= xform.len
    /\ xform.k >= xform.size

\* C30: in fft_execute_32, for every plan size 2^len <= 1024 and every
\* depth from 1 to len, taken in increasing order, each butterfly has
\* 0 <= top < bottom < size, each twiddle index (FFT_SIZE_MAX >> depth) * j
\* lies in [0, FFT_SIZE_MAX / 2), and each element of the output is written
\* by exactly one butterfly of the stage.
C30_ButterfliesCoverEachStageOnce ==
    xform.kind = "butterfly" =>
      /\ xform.depths \in {[i \in 1 .. d |-> i] : d \in 0 .. xform.len}
      /\ xform.pc = "step2_done" => Len(xform.depths) = xform.len
      /\ \A i \in 1 .. Len(xform.flies) :
            /\ 0 <= xform.flies[i].top
            /\ xform.flies[i].top < xform.flies[i].bottom
            /\ xform.flies[i].bottom < xform.size
            /\ xform.flies[i].index
                  = (FFT_SIZE_MAX \div (2 ^ xform.depth)) * xform.flies[i].j
            /\ 0 <= xform.flies[i].index
            /\ xform.flies[i].index < FFT_SIZE_MAX \div 2
      /\ \A e \in 0 .. (xform.size - 1) : xform.writes[e] <= 1
      /\ StageEnded => \A e \in 0 .. (xform.size - 1) : xform.writes[e] = 1

\* The last stage of the largest plan has ended; its last butterfly reads
\* the last twiddle factor of the first half of the table
C30_Witness ==
    /\ StageEnded
    /\ xform.size = FFT_SIZE_MAX
    /\ xform.depth = xform.len
    /\ Len(xform.flies) = FFT_SIZE_MAX \div 2
    /\ xform.flies[Len(xform.flies)].index = FFT_SIZE_MAX \div 2 - 1
    /\ xform.flies[Len(xform.flies)].bottom = FFT_SIZE_MAX - 1

(* ------------------------------------------------------------------ *)
(* Claims about the indices of fft_multi_execute_32                    *)
(* ------------------------------------------------------------------ *)
\* The copy loop has made a pass
CopyMade == xform.kind = "multi_index" /\ xform.pc = "copy" /\ xform.i > 0

\* The loop of dft3_32 has made a pass
Dft3Stored ==
    /\ xform.kind = "multi_index"
    /\ xform.pc \in {"dft3", "multi_done"}
    /\ xform.stores # << >>

====
